---- MODULE Spec2Model ----
(***************************************************************************)
(* Model of objc2's reference-counted handle `Id<T, O>` (objc2/src/rc/id.rs)*)
(* over the foreign runtime's retain / release / autorelease primitives and *)
(* its stack of autorelease pools.                                          *)
(*                                                                          *)
(* The host side is the table `handles` of the Id values that currently    *)
(* exist, the set `refs` of the references handed out by autorelease and    *)
(* the table `weak` of the WeakId values.                                   *)
(* The foreign side is the record `rt`: the hidden retain counts, the pool  *)
(* stack with the deposits of each pool, and the log of the foreign calls   *)
(* issued by the operation that produced the current state.                 *)
(*                                                                          *)
(* `enc` carries the type encodings of objc2-encode (encode.rs): a type     *)
(* built from a base type by pointer and transparent constructors, with its *)
(* ENCODING and ENCODING_REF, and an argument tuple with its ENCODINGS.      *)
(* `mt` carries one object with its handles and pools over several threads, *)
(* where the Send and Sync impls of Id decide what may cross threads.       *)
(***************************************************************************)
EXTENDS Integers, Sequences, FiniteSets

\* ---------------------------------------------------------------- bounds
NumObjs    == 2     \* foreign objects that can be allocated
MaxHandles == 2     \* Id values alive at the same time
MaxPools   == 2     \* autorelease pools opened over one run
MaxRc      == 3     \* retain counts explored (retains stop at this count)
MaxWeak    == 1     \* WeakId values alive at the same time
MaxDepth   == 3     \* type constructors applied to a base type
NumThreads == 2     \* host threads
MaxStmts   == 3     \* statements added to one File
NumStmts   == 2     \* different statements

Objs      == 1..NumObjs
Null      == 0                      \* the null pointer
Ptrs      == Objs \cup {Null}
HandleIds == 1..MaxHandles
PoolIds   == 1..MaxPools
WeakIds   == 1..MaxWeak
None      == 0                      \* Option::None / no handle / no pool
Ownerships == {"Owned", "Shared"}

VARIABLES
    rt,        \* the foreign runtime: counts, pools, call log
    raw,       \* raw[o]: +1 credits on o held outside any Id (raw pointers)
    handles,   \* handles[h]: the Id in slot h, or NoHandle
    refs,      \* references returned by autorelease, each bound to a pool
    last,      \* the operation that produced the current state
    tc,        \* progress of the test_clone scenario on one object
    weak,      \* weak[w]: the object the WeakId in slot w observes, or Null
    enc,       \* a Rust type with its encodings, and an argument tuple
    mt,        \* one object, its handles and the pools, over several threads
    file       \* a header-translator File, its configuration and rendering

host == <<rt, raw, handles, refs, last, tc, weak>>
vars == <<rt, raw, handles, refs, last, tc, weak, enc, mt, file>>

\* ------------------------------------------------- objc2-encode: encode.rs
\* A Rust type is the sequence of its type constructors, outermost first,
\* ending in a base type: <<"ref", "ManuallyDrop", "u8">> is &ManuallyDrop<u8>.
\* An Encoding is the sequence of its Pointer wrappers ending in a leaf:
\* <<"Pointer", "Int">> is Encoding::Pointer(&Encoding::Int). NoImpl stands
\* for a trait that is not implemented for the type.
BaseTypes    == {"i8", "u8", "i32", "u32", "bool", "f64", "unit", "c_void"}
PointerKinds == {"const_ptr", "mut_ptr", "ref", "mut_ref", "NonNull",
                 "Option_ref", "Option_mut_ref", "Option_NonNull"}
Transparent  == {"ManuallyDrop", "MaybeUninit", "Wrapping"}
MaxArgs      == 12
NoImpl       == <<>>

Pointer(e) == <<"Pointer">> \o e

\* encode_impls!, impl Encode for () and for bool; c_void has no encoding.
BaseEncoding(b) ==
    CASE b = "i8"   -> <<"Char">>
      [] b = "u8"   -> <<"UChar">>
      [] b = "i32"  -> <<"Int">>
      [] b = "u32"  -> <<"UInt">>
      [] b = "f64"  -> <<"Double">>
      [] b = "bool" -> <<"Bool">>
      [] b = "unit" -> <<"Void">>
      [] OTHER      -> NoImpl

\* A reference encoding of i8 and u8 that is a pointer to a character.
BaseEncodingRef_pointer(b) ==
    IF b \in {"i8", "u8", "i32", "u32", "bool", "f64"}
    THEN Pointer(BaseEncoding(b)) ELSE NoImpl

\* pointer_refencode_impl!, and the C strings: &i8 and &u8 are String.
BaseEncodingRef(b) ==
    CASE b \in {"i8", "u8"} -> <<"String">>
      [] b \in {"i32", "u32", "bool", "f64"} -> Pointer(BaseEncoding(b))
      [] OTHER -> NoImpl

\* A transparent wrapper that encodes as a pointer to its field.
encode_impls_transparent_boxed(inner) ==
    [ENCODING     |-> IF inner.ENCODING = NoImpl THEN NoImpl
                      ELSE Pointer(inner.ENCODING),
     ENCODING_REF |-> inner.ENCODING_REF]

\* encode_impls_transparent!: ManuallyDrop<T>, MaybeUninit<T>, Wrapping<T>
\* take both encodings of T, each where T has it.
encode_impls_transparent(inner) ==
    [ENCODING |-> inner.ENCODING, ENCODING_REF |-> inner.ENCODING_REF]

\* encode_pointer_impls!: for T: RefEncode a pointer to T encodes as T's
\* reference encoding, and a reference to the pointer wraps that once.
encode_pointer_impls(inner) ==
    IF inner.ENCODING_REF = NoImpl
    THEN [ENCODING |-> NoImpl, ENCODING_REF |-> NoImpl]
    ELSE [ENCODING     |-> inner.ENCODING_REF,
          ENCODING_REF |-> Pointer(inner.ENCODING_REF)]

\* impl Encode / RefEncode for *const c_void and *mut c_void.
c_void_pointer ==
    [ENCODING     |-> Pointer(<<"Void">>),
     ENCODING_REF |-> Pointer(Pointer(<<"Void">>))]

\* The impls that apply to a type, innermost first.
RECURSIVE Impl(_)
Impl(t) ==
    IF Len(t) = 1
    THEN [ENCODING |-> BaseEncoding(t[1]), ENCODING_REF |-> BaseEncodingRef(t[1])]
    ELSE IF Head(t) \in Transparent THEN encode_impls_transparent(Impl(Tail(t)))
    ELSE IF Head(t) \in {"const_ptr", "mut_ptr"} /\ Tail(t) = <<"c_void">>
         THEN c_void_pointer
    ELSE encode_pointer_impls(Impl(Tail(t)))

ENCODING(t)     == Impl(t).ENCODING
ENCODING_REF(t) == Impl(t).ENCODING_REF

\* An argument list whose encodings are those of the references to the
\* arguments.
ENCODINGS_by_ref(args) == [i \in 1..Len(args) |-> ENCODING_REF(args[i])]

\* encode_args_impl!: the ENCODING of each argument, in order.
ENCODINGS(args) == [i \in 1..Len(args) |-> ENCODING(args[i])]

\* The argument types of test_encode_arguments.
ArgTypes == {<<"i8">>, <<"u32">>}

EncOf(t) == [ty |-> t, ENCODING |-> ENCODING(t), ENCODING_REF |-> ENCODING_REF(t),
             args |-> <<>>, ENCODINGS |-> ENCODINGS(<<>>)]

\* *const T, *mut T, &T, &mut T, NonNull<T>, Option<&T>, ... of the type.
EncPointer(k) ==
    /\ enc.args = <<>> /\ Len(enc.ty) <= MaxDepth
    /\ enc' = EncOf(<<k>> \o enc.ty)

\* ManuallyDrop<T>, MaybeUninit<T>, Wrapping<T> of the type.
EncTransparent(w) ==
    /\ enc.args = <<>> /\ Len(enc.ty) <= MaxDepth
    /\ enc' = EncOf(<<w>> \o enc.ty)

\* One more argument type in the tuple.
EncArgument(t) ==
    /\ Len(enc.ty) = 1 /\ Len(enc.args) < MaxArgs
    /\ LET as == Append(enc.args, t) IN
        enc' = [enc EXCEPT !.args = as, !.ENCODINGS = ENCODINGS(as)]


\* ------------------------------------------------- foreign runtime (ffi)
\* objc_retain: count + 1, returns its argument; a no-op on nil.
objc_retain(r, p) ==
    LET r1 == [r EXCEPT !.log = Append(@, <<"retain", p>>)] IN
    IF p = Null THEN r1
    ELSE IF r.st[p] # "live" THEN [r1 EXCEPT !.ub = TRUE]
    ELSE [r1 EXCEPT !.rc[p] = @ + 1]

\* objc_retainAutoreleasedReturnValue: objc_retain, possibly optimised.
objc_retainAutoreleasedReturnValue(r, p) ==
    LET r1 == [r EXCEPT !.log = Append(@, <<"retainAutoreleasedReturnValue", p>>)] IN
    IF p = Null THEN r1
    ELSE IF r.st[p] # "live" THEN [r1 EXCEPT !.ub = TRUE]
    ELSE [r1 EXCEPT !.rc[p] = @ + 1]

\* objc_release: count - 1, deallocating the object at zero.
objc_release(r, p) ==
    LET r1 == [r EXCEPT !.log = Append(@, <<"release", p>>)] IN
    IF p = Null THEN r1
    ELSE IF r.st[p] # "live" THEN [r1 EXCEPT !.ub = TRUE]
    ELSE [r1 EXCEPT !.rc[p] = @ - 1,
                    !.st[p] = IF r.rc[p] = 1 THEN "dead" ELSE "live"]

\* The innermost pool that is currently open (None when there is none).
Innermost(r) == IF r.stack = <<>> THEN None ELSE r.stack[Len(r.stack)]

\* An autorelease that schedules the release against the outermost pool.
objc_autorelease_outermost(r, p) ==
    LET r1 == [r EXCEPT !.log = Append(@, <<"autorelease", p>>)]
    IN  IF p = Null THEN r1
        ELSE IF r.st[p] # "live" THEN [r1 EXCEPT !.ub = TRUE]
        ELSE IF r.stack = <<>> THEN r1
        ELSE [r1 EXCEPT !.deps[r.stack[1]][p] = @ + 1]

\* An autorelease that returns the pointer without scheduling the release.
objc_autorelease_unscheduled(r, p) ==
    [r EXCEPT !.log = Append(@, <<"autorelease", p>>)]

\* objc_autorelease: schedules one release against the innermost pool.
objc_autorelease(r, p) ==
    LET r1 == [r EXCEPT !.log = Append(@, <<"autorelease", p>>)]
        top == Innermost(r)
    IN  IF p = Null THEN r1
        ELSE IF r.st[p] # "live" THEN [r1 EXCEPT !.ub = TRUE]
        ELSE IF top = None THEN r1
        ELSE [r1 EXCEPT !.deps[top][p] = @ + 1]

\* A weak load that hands out the recorded pointer without looking at the
\* state of the object.
objc_loadWeakRetained_stale(r, p) ==
    LET r1 == [r EXCEPT !.log = Append(@, <<"loadWeakRetained", p>>)] IN
    IF p # Null /\ r.st[p] = "live"
    THEN [rt |-> [r1 EXCEPT !.rc[p] = @ + 1], res |-> p]
    ELSE [rt |-> r1, res |-> p]

\* The weak-load primitive: in one atomic step either retains the object and
\* returns its pointer, or finds it deallocated and returns null.
objc_loadWeakRetained(r, p) ==
    LET r1 == [r EXCEPT !.log = Append(@, <<"loadWeakRetained", p>>)] IN
    IF p # Null /\ r.st[p] = "live"
    THEN [rt |-> [r1 EXCEPT !.rc[p] = @ + 1], res |-> p]
    ELSE [rt |-> r1, res |-> Null]

\* NonNull::as_ref / as_mut: an access to the object behind the pointer.
as_ref(r, p) == IF r.st[p] # "live" THEN [r EXCEPT !.ub = TRUE] ELSE r

\* A primitive that returns the null pointer instead of its argument.
objc_result_null(p) == Null

\* The value each primitive returns: the pointer it was given.
objc_result(p) == p

\* ------------------------------------------------------------ host state
NoHandle == [st |-> "none", ptr |-> Null, own |-> "Shared"]

NoDeps == [p \in PoolIds |-> [o \in Objs |-> 0]]

NoOp == [op |-> "init", h |-> None, arg |-> Null, res |-> None,
         pool |-> None, rc0 |-> [o \in Objs |-> 0], deps0 |-> NoDeps,
         live0 |-> [o \in Objs |-> 0], log |-> <<>>]

Forget(l) == [op |-> l.op, h |-> l.h, arg |-> l.arg, res |-> l.res,
              pool |-> l.pool, rc0 |-> l.rc0, deps0 |-> l.deps0,
              live0 |-> l.live0, log |-> l.log]

Live(h)   == handles[h].st = "live"
LiveOn(o) == {h \in HandleIds : handles[h].st = "live" /\ handles[h].ptr = o}
WeakOn(o) == {w \in WeakIds : weak[w] = o}
Pending(r, o) ==
    LET RECURSIVE Sum(_)
        Sum(T) == IF T = {} THEN 0
                  ELSE LET p == CHOOSE q \in T : TRUE
                       IN r.deps[p][o] + Sum(T \ {p})
    IN Sum(PoolIds)
Draining  == \E p \in PoolIds : rt.pst[p] = "draining"
OpenPools == {p \in PoolIds : rt.pst[p] = "open"}

\* The operations that construct, convert or destroy an Id.
IdOps == {"new", "retain", "retain_autoreleased", "clone", "from",
          "from_shared", "autorelease", "drop"}

\* The record of an operation: what it was applied to, what it returned,
\* the counts, deposits and live handles before it and the foreign calls it
\* issued.  `pre` keeps the record of the preceding operation when that was
\* an operation of Id and this one acts on the handle it returned or was
\* applied to.
Record(op, h, arg, res, pool, r1) ==
    [op |-> op, h |-> h, arg |-> arg, res |-> res, pool |-> pool,
     rc0 |-> rt.rc, deps0 |-> rt.deps,
     live0 |-> [o \in Objs |-> Cardinality(LiveOn(o))], log |-> r1.log,
     pre |-> IF h # None /\ h \in {last.res, last.h} /\ last.op \in IdOps /\ op \in IdOps
             THEN Forget(last) ELSE NoOp]

Begin == [rt EXCEPT !.log = <<>>]

\* Number of calls of the primitive fn on pointer p in a call log.
Calls(log, fn, p) == Cardinality({i \in 1..Len(log) : log[i] = <<fn, p>>})

\* tests::test_clone, followed through the operations on one object:
\*   1 created (msg_send![cls, alloc/init])   2 Id::new as Owned
\*   3 .into() Shared   4 .clone()   5 drop(obj)   6 drop(cloned)
\* Operations on other objects and on pools may come in between; any other
\* operation on the object itself ends the scenario ("off").
TcIdle == [pc |-> 0, obj |-> Null, h |-> None, g |-> None, nret |-> 0, nrel |-> 0]
TcOff  == [TcIdle EXCEPT !.pc = 7]

test_clone(t, l, hs) ==
    LET t1 == IF l.arg = t.obj /\ t.obj # Null
              THEN [t EXCEPT !.nret = @ + Calls(l.log, "retain", t.obj),
                             !.nrel = @ + Calls(l.log, "release", t.obj)]
              ELSE t
    IN
    IF l.op = "alloc" /\ t.pc \in {0, 6, 7}
        THEN [TcIdle EXCEPT !.pc = 1, !.obj = l.arg]
    ELSE IF t.pc \notin 1..5 \/ l.op \in {"draining", "pop"} \/ l.arg # t.obj
        THEN t
    ELSE IF t.pc = 1 /\ l.op = "new" /\ hs[l.res].own = "Owned"
        THEN [t1 EXCEPT !.pc = 2, !.h = l.res]
    ELSE IF t.pc = 2 /\ l.op = "from" /\ l.h = t.h
        THEN [t1 EXCEPT !.pc = 3, !.h = l.res]
    ELSE IF t.pc = 3 /\ l.op = "clone" /\ l.h = t.h
        THEN [t1 EXCEPT !.pc = 4, !.g = l.res]
    ELSE IF t.pc = 4 /\ l.op = "drop" /\ l.h = t.h
        THEN [t1 EXCEPT !.pc = 5, !.h = None]
    ELSE IF t.pc = 5 /\ l.op = "drop" /\ l.h = t.g
        THEN [t1 EXCEPT !.pc = 6, !.g = None]
    ELSE TcOff

\* ------------------------------------------- threads: Send and Sync of Id
\* One object of a pointee type T, which is or is not Send and Sync, the Id
\* values that hold it on NumThreads threads, and the pools of each thread.
Threads  == 1..NumThreads
NoThread == 0

\* A Send for Id<T, Shared> that asks for T: Sync only.
IdSend_sync_only(O, T) ==
    IF O = "Shared" THEN T.sync ELSE T.send

\* unsafe impl Send for Id<T, Shared> (T: Sync + Send) and for
\* Id<T, Owned> (T: Send).
IdSend(O, T) ==
    IF O = "Shared" THEN T.sync /\ T.send ELSE T.send

\* A Sync that asks for T: Sync + Send whatever the ownership.
IdSync_like_shared(O, T) == T.sync /\ T.send

\* unsafe impl Sync for Id<T, Shared> (T: Sync + Send) and for
\* Id<T, Owned> (T: Sync).
IdSync(O, T) ==
    IF O = "Shared" THEN T.sync /\ T.send ELSE T.sync

\* &T is Send when T is Sync, &mut T when T is Send: the references that
\* autorelease returns are plain references.
RefSend(O, T) == IF O = "Shared" THEN T.sync ELSE T.send

MtNoHandle == [st |-> "none", own |-> "Shared", th |-> NoThread,
               origin |-> NoThread, lent |-> {}]
MtNoPool   == [pst |-> "unopened", th |-> NoThread, deps |-> 0,
               depBy |-> {}, drainedBy |-> NoThread]

MtInit(send, sync) ==
    [T      |-> [send |-> send, sync |-> sync],
     rc     |-> 0,
     st     |-> "free",
     deallocOn |-> NoThread,
     deallocs  |-> 0,
     madeOn    |-> NoThread,
     hs     |-> [h \in HandleIds |-> MtNoHandle],
     stack  |-> [t \in Threads |-> <<>>],
     pools  |-> [p \in PoolIds |-> MtNoPool],
     refs   |-> {}]

MtLive(h)  == mt.hs[h].st = "live"
MtFree     == {h \in HandleIds : mt.hs[h].st = "none"}
MtSlot     == CHOOSE h \in MtFree : \A g \in MtFree : h <= g
\* The threads that can use handle h: its owner and those it is lent to.
MtUsers(h) == {mt.hs[h].th} \cup mt.hs[h].lent
MtTop(t)   == mt.stack[t][Len(mt.stack[t])]

\* objc_release on thread t, n times: the object is deallocated on t when
\* the count reaches zero.
MtRelease(m, t, n) ==
    [m EXCEPT !.rc = @ - n,
              !.st = IF n > 0 /\ m.rc = n THEN "dead" ELSE @,
              !.deallocOn = IF n > 0 /\ m.rc = n THEN t ELSE @,
              !.deallocs = IF n > 0 /\ m.rc = n THEN @ + 1 ELSE @]

\* Id::new on thread t of a fresh +1 object.
MtNew(t, own) ==
    /\ mt.st = "free"
    /\ mt' = [mt EXCEPT !.rc = 1, !.st = "live", !.madeOn = t,
                        !.hs[MtSlot] = [st |-> "live", own |-> own, th |-> t,
                                        origin |-> t, lent |-> {}]]

\* A clone that copies the handle without retaining the object.
MtClone_no_retain(t, h) ==
    /\ MtLive(h) /\ mt.hs[h].own = "Shared" /\ t \in MtUsers(h)
    /\ MtFree # {} /\ mt.rc < MaxRc
    /\ mt' = [mt EXCEPT !.hs[MtSlot] = [st |-> "live", own |-> "Shared", th |-> t,
                                        origin |-> t, lent |-> {}]]

\* Clone::clone on thread t, through the handle or a shared borrow of it.
MtClone(t, h) ==
    /\ MtLive(h) /\ mt.hs[h].own = "Shared" /\ t \in MtUsers(h)
    /\ MtFree # {} /\ mt.rc < MaxRc
    /\ mt' = [mt EXCEPT !.rc = @ + 1,
                        !.hs[MtSlot] = [st |-> "live", own |-> "Shared", th |-> t,
                                        origin |-> t, lent |-> {}]]

\* From<Id<T, Owned>> for Id<T, Shared>, on the owner's thread.
MtFrom(h) ==
    /\ MtLive(h) /\ mt.hs[h].own = "Owned" /\ mt.hs[h].lent = {}
    /\ mt' = [mt EXCEPT !.hs[h].own = "Shared", !.hs[h].origin = mt.hs[h].th]

\* The handle is moved to thread t: Id<T, O> must be Send.
MtSend(h, t) ==
    /\ MtLive(h) /\ t # mt.hs[h].th /\ mt.hs[h].lent = {}
    /\ IdSend(mt.hs[h].own, mt.T)
    /\ mt' = [mt EXCEPT !.hs[h].th = t]

\* &Id<T, O> is lent to thread t for a scope: Id<T, O> must be Sync.
MtShare(h, t) ==
    /\ MtLive(h) /\ t \notin MtUsers(h)
    /\ IdSync(mt.hs[h].own, mt.T)
    /\ mt' = [mt EXCEPT !.hs[h].lent = @ \cup {t}]

\* The scope of the borrow ends.
MtUnshare(h, t) ==
    /\ MtLive(h) /\ t \in mt.hs[h].lent
    /\ mt' = [mt EXCEPT !.hs[h].lent = @ \ {t}]

\* A drop whose release runs on the thread the handle was made on.
MtDrop_on_origin(h) ==
    /\ MtLive(h) /\ mt.hs[h].lent = {}
    /\ mt' = [MtRelease(mt, mt.hs[h].origin, 1) EXCEPT !.hs[h] = MtNoHandle]

\* Drop on the owner's thread: objc_release there.
MtDrop(h) ==
    /\ MtLive(h) /\ mt.hs[h].lent = {}
    /\ mt' = [MtRelease(mt, mt.hs[h].th, 1) EXCEPT !.hs[h] = MtNoHandle]

\* autoreleasepool entered on thread t.
MtPoolPush(t) ==
    \E p \in PoolIds :
        /\ mt.pools[p].pst = "unopened"
        /\ \A q \in PoolIds : q < p => mt.pools[q].pst # "unopened"
        /\ mt' = [mt EXCEPT !.stack[t] = Append(@, p),
                            !.pools[p].pst = "open", !.pools[p].th = t]

\* Id::autorelease on the owner's thread: the deposit goes to the innermost
\* pool of that thread and the reference is bound to it.
MtAutorelease(h) ==
    LET t == mt.hs[h].th IN
    /\ MtLive(h) /\ mt.hs[h].lent = {}
    /\ mt.stack[t] # <<>>
    /\ LET p == MtTop(t) IN
        mt' = [mt EXCEPT !.hs[h] = MtNoHandle,
                         !.pools[p].deps = @ + 1,
                         !.pools[p].depBy = @ \cup {t},
                         !.refs = @ \cup {[own |-> mt.hs[h].own, pool |-> p, th |-> t]}]

\* A reference bound to an open pool is handed to thread t for a scope.
MtRefSend(x, t) ==
    /\ x \in mt.refs /\ t # x.th
    /\ RefSend(x.own, mt.T)
    /\ mt' = [mt EXCEPT !.refs = (@ \ {x}) \cup {[x EXCEPT !.th = t]}]

\* The closure on thread t returns: its innermost pool drains on t. The
\* scopes that borrowed a reference of the pool have ended before.
MtPoolPop(t) ==
    /\ mt.stack[t] # <<>>
    /\ LET p == MtTop(t) IN
        /\ \A x \in mt.refs : x.pool = p => x.th = t
        /\ mt' = [MtRelease(mt, t, mt.pools[p].deps) EXCEPT
                      !.stack[t] = SubSeq(@, 1, Len(@) - 1),
                      !.pools[p].pst = "closed", !.pools[p].deps = 0,
                      !.pools[p].drainedBy = t,
                      !.refs = {x \in @ : x.pool # p}]

\* ------------------------------------------- header-translator: file.rs
\* A File is its imports and its statements; the configuration maps each
\* library to its imports; the rendering is the sequence of lines written.
LibraryNames == {"AppKit", "Foundation"}
ImportLists  == {<<>>, <<"Foundation">>, <<"CoreData", "Foundation">>,
                 <<"Foundation", "CoreData">>}
StmtIds      == 1..NumStmts
NoFile       == [imports |-> <<>>, stmts |-> <<>>, made |-> FALSE]
NoLibraries  == [l \in {} |-> <<>>]

FILE_PRELUDE  == <<"prelude">>
UseLine(i)    == <<"use", i>>
BlankLine     == <<"blank">>
StmtLine(st)  == <<"stmt", st>>

FileInit(libraries) ==
    [libraries |-> libraries, f |-> NoFile, out |-> <<>>,
     op |-> "init", arg |-> "none"]

\* File::new: the imports of the library in the configuration, no statement;
\* it panics when the configuration has no such library.
FileNew(library_name) ==
    IF library_name \in DOMAIN file.libraries
    THEN file' = [file EXCEPT
                      !.f = [imports |-> file.libraries[library_name],
                             stmts |-> <<>>, made |-> TRUE],
                      !.out = <<>>, !.op = "new", !.arg = library_name]
    ELSE file' = [file EXCEPT !.f = NoFile, !.out = <<>>,
                              !.op = "panic", !.arg = library_name]

\* An add_stmt that puts the statement in front of the others.
add_stmt_front(stmt) ==
    /\ file.f.made /\ Len(file.f.stmts) < MaxStmts
    /\ file' = [file EXCEPT !.f.stmts = <<stmt>> \o @, !.out = <<>>,
                            !.op = "add_stmt", !.arg = stmt]

\* File::add_stmt: self.stmts.push(stmt).
add_stmt(stmt) ==
    /\ file.f.made /\ Len(file.f.stmts) < MaxStmts
    /\ file' = [file EXCEPT !.f.stmts = Append(@, stmt), !.out = <<>>,
                            !.op = "add_stmt", !.arg = stmt]

\* impl fmt::Display for File: the prelude, the common import, one import
\* line per import, an empty line, one line per statement.
fmt(self) ==
    <<FILE_PRELUDE>> \o <<UseLine("common")>>
        \o [i \in 1..Len(self.imports) |-> UseLine(self.imports[i])]
        \o <<BlankLine>>
        \o [j \in 1..Len(self.stmts) |-> StmtLine(self.stmts[j])]

\* The File is rendered.
FileDisplay ==
    /\ file.f.made /\ file.op # "fmt"
    /\ file' = [file EXCEPT !.out = fmt(file.f), !.op = "fmt", !.arg = "none"]

HostInit ==
    /\ rt = [rc     |-> [o \in Objs |-> 0],
             st     |-> [o \in Objs |-> "free"],
             stack  |-> <<>>,
             pst    |-> [p \in PoolIds |-> "unopened"],
             parent |-> [p \in PoolIds |-> None],
             deps   |-> NoDeps,
             ub     |-> FALSE,
             log    |-> <<>>]
    /\ raw = [o \in Objs |-> 0]
    /\ handles = [h \in HandleIds |-> NoHandle]
    /\ refs = {}
    /\ last = [op |-> "init", h |-> None, arg |-> Null, res |-> None,
               pool |-> None, rc0 |-> [o \in Objs |-> 0], deps0 |-> NoDeps,
               live0 |-> [o \in Objs |-> 0], log |-> <<>>, pre |-> NoOp]
    /\ tc = TcIdle
    /\ weak = [w \in WeakIds |-> Null]

Init ==
    /\ HostInit /\ enc = EncOf(<<"unit">>) /\ mt = MtInit(FALSE, FALSE)
    /\ file = FileInit(NoLibraries)

\* ------------------------------------------------ caller preconditions
\* References handed out by autorelease live as long as the pool they are
\* bound to: `&'p mut T` from an Owned handle, `&'p T` from a Shared one.
PoolRefs(o, own) == {x \in refs : x.ptr = o /\ x.own = own}

\* "The caller must ensure that the ownership is correct": no Owned handle
\* or mutable reference next to the new handle, and nothing at all next to
\* a new Owned handle, a WeakId included.
OwnershipOk(p, own) ==
    /\ \A h \in LiveOn(p) : handles[h].own = "Shared" /\ own = "Shared"
    /\ PoolRefs(p, "Owned") = {}
    /\ own = "Owned" => (PoolRefs(p, "Shared") = {} /\ WeakOn(p) = {})

\* The slot a newly constructed Id takes.
FreeSlots == {h \in HandleIds : handles[h].st = "none"}
Room      == FreeSlots # {}
CanRetain(p) == rt.rc[p] < MaxRc
Slot(hs)  == CHOOSE h \in HandleIds :
                 /\ hs[h].st = "none"
                 /\ \A g \in HandleIds : g < h => hs[g].st # "none"

\* Id::new_nonnull: wraps the pointer, no call.
new_nonnull(hs, ptr, own) ==
    [hs EXCEPT ![Slot(hs)] = [st |-> "live", ptr |-> ptr, own |-> own]]

\* A constructor that wraps whatever pointer it is given, null included.
new_unchecked(hs, ptr, own) ==
    IF \E h \in HandleIds : hs[h].st = "none"
    THEN [hs |-> new_nonnull(hs, ptr, own), res |-> Slot(hs)]
    ELSE [hs |-> hs, res |-> None]

\* Id::new: None on null, otherwise new_nonnull.
new(hs, ptr, own) ==
    IF ptr = Null THEN [hs |-> hs, res |-> None]
    ELSE [hs |-> new_nonnull(hs, ptr, own), res |-> Slot(hs)]

\* A ManuallyDrop that leaves the handle usable.
ManuallyDrop_keeps(hs, h) == hs

\* ManuallyDrop::new(obj): the Id is gone and its destructor does not run.
ManuallyDrop(hs, h) == [hs EXCEPT ![h] = NoHandle]

\* ------------------------------------------------------------ operations
\* msg_send![cls, new]: the runtime creates an object with count 1 and hands
\* the +1 to the caller as a raw pointer.
Alloc ==
    /\ ~Draining
    /\ \E o \in Objs :
        /\ rt.st[o] = "free"
        /\ \A q \in Objs : q < o => rt.st[q] # "free"
        /\ rt' = [Begin EXCEPT !.rc[o] = 1, !.st[o] = "live"]
        /\ raw' = [raw EXCEPT ![o] = 1]
        /\ last' = Record("alloc", None, o, None, None, Begin)
    /\ UNCHANGED <<handles, refs>>

\* A holder of a raw +1 outside the host gives its credit up.
ForeignRelease(o) ==
    /\ ~Draining
    /\ raw[o] > 0
    /\ LET r1 == objc_release(Begin, o) IN
        /\ rt' = r1
        /\ last' = Record("foreign_release", None, o, None, None, r1)
    /\ raw' = [raw EXCEPT ![o] = @ - 1]
    /\ UNCHANGED <<handles, refs>>

\* An adoption that retains the pointer it is given, as Id::retain does.
IdNew_retains(p, own) ==
    /\ ~Draining
    /\ p # Null => (Room /\ raw[p] > 0 /\ rt.st[p] = "live" /\ OwnershipOk(p, own))
    /\ LET r1 == objc_retain(Begin, p)
           n  == new(handles, p, own)
       IN  /\ handles' = n.hs
           /\ rt' = r1
           /\ last' = Record("new", None, p, n.res, None, r1)
    /\ raw' = IF p = Null THEN raw ELSE [raw EXCEPT ![p] = @ - 1]
    /\ UNCHANGED refs

\* Id::new(ptr): adopts a pointer that already carries a +1.
IdNew(p, own) ==
    /\ ~Draining
    /\ p # Null => (Room /\ raw[p] > 0 /\ rt.st[p] = "live" /\ OwnershipOk(p, own))
    /\ LET n == new(handles, p, own) IN
        /\ handles' = n.hs
        /\ rt' = Begin
        /\ last' = Record("new", None, p, n.res, None, Begin)
    /\ raw' = IF p = Null THEN raw ELSE [raw EXCEPT ![p] = @ - 1]
    /\ UNCHANGED refs

\* A retain that tests for null first and calls the runtime only otherwise.
IdRetain_null_checked(p, own) ==
    /\ ~Draining
    /\ p # Null => (Room /\ CanRetain(p) /\ rt.st[p] = "live" /\ OwnershipOk(p, own))
    /\ LET r1  == IF p = Null THEN Begin ELSE objc_retain(Begin, p)
           n   == new(handles, p, own)
       IN  /\ handles' = n.hs
           /\ rt' = r1
           /\ last' = Record("retain", None, p, n.res, None, r1)
    /\ UNCHANGED <<raw, refs>>

\* A retain that wraps the pointer without taking a retain count.
IdRetain_no_call(p, own) ==
    /\ ~Draining
    /\ p # Null => (Room /\ CanRetain(p) /\ rt.st[p] = "live" /\ OwnershipOk(p, own))
    /\ LET n == new(handles, p, own)
       IN  /\ handles' = n.hs
           /\ rt' = Begin
           /\ last' = Record("retain", None, p, n.res, None, Begin)
    /\ UNCHANGED <<raw, refs>>

\* Id::retain(ptr): objc_retain, then Id::new on what it returned.
IdRetain(p, own) ==
    /\ ~Draining
    /\ p # Null => (Room /\ CanRetain(p) /\ rt.st[p] = "live" /\ OwnershipOk(p, own))
    /\ LET r1  == objc_retain(Begin, p)
           res == objc_result(p)
           n   == new(handles, res, own)
       IN  /\ handles' = n.hs
           /\ rt' = r1
           /\ last' = Record("retain", None, p, n.res, None, r1)
    /\ UNCHANGED <<raw, refs>>

\* A retain_autoreleased that wraps the pointer without calling the runtime.
IdRetainAutoreleased_no_call(p, own) ==
    /\ ~Draining
    /\ p # Null => (Room /\ CanRetain(p) /\ rt.st[p] = "live" /\ OwnershipOk(p, own))
    /\ LET n == new(handles, p, own)
       IN  /\ handles' = n.hs
           /\ rt' = Begin
           /\ last' = Record("retain_autoreleased", None, p, n.res, None, Begin)
    /\ UNCHANGED <<raw, refs>>

\* Id::retain_autoreleased(ptr).
IdRetainAutoreleased(p, own) ==
    /\ ~Draining
    /\ p # Null => (Room /\ CanRetain(p) /\ rt.st[p] = "live" /\ OwnershipOk(p, own))
    /\ LET r1  == objc_retainAutoreleasedReturnValue(Begin, p)
           res == objc_result(p)
           n   == new(handles, res, own)
       IN  /\ handles' = n.hs
           /\ rt' = r1
           /\ last' = Record("retain_autoreleased", None, p, n.res, None, r1)
    /\ UNCHANGED <<raw, refs>>

\* A clone that copies the pointer without retaining it.
Clone_no_retain(h) ==
    /\ ~Draining
    /\ Live(h) /\ handles[h].own = "Shared" /\ Room /\ CanRetain(handles[h].ptr)
    /\ LET p == handles[h].ptr
           n == new(handles, p, "Shared")
       IN  /\ handles' = n.hs
           /\ rt' = Begin
           /\ last' = Record("clone", h, p, n.res, None, Begin)
    /\ UNCHANGED <<raw, refs>>

\* A clone offered for every ownership: the copy has the ownership of the
\* handle it was made from.
Clone_any_ownership(h) ==
    /\ ~Draining
    /\ Live(h) /\ Room /\ CanRetain(handles[h].ptr)
    /\ LET p   == handles[h].ptr
           r1  == objc_retain(Begin, p)
           res == objc_result(p)
           n   == new(handles, res, handles[h].own)
       IN  /\ handles' = n.hs
           /\ rt' = r1
           /\ last' = Record("clone", h, p, n.res, None, r1)
    /\ UNCHANGED <<raw, refs>>

\* <Id<T, Shared> as Clone>::clone: Id::retain(self.ptr), unwrapped.
Clone(h) ==
    /\ ~Draining
    /\ Live(h) /\ handles[h].own = "Shared" /\ Room /\ CanRetain(handles[h].ptr)
    /\ LET p   == handles[h].ptr
           r1  == objc_retain(Begin, p)
           res == objc_result(p)
           n   == new(handles, res, "Shared")
       IN  /\ handles' = n.hs
           /\ rt' = r1
           /\ last' = Record("clone", h, p, n.res, None, r1)
    /\ UNCHANGED <<raw, refs>>

\* A downgrade without ManuallyDrop: the Owned handle's destructor runs.
From_drops_source(h) ==
    /\ ~Draining
    /\ Live(h) /\ handles[h].own = "Owned"
    /\ LET p  == handles[h].ptr
           r1 == objc_release(Begin, p)
           n  == new(ManuallyDrop(handles, h), p, "Shared")
       IN  /\ handles' = n.hs
           /\ rt' = r1
           /\ last' = Record("from", h, p, n.res, None, r1)
    /\ UNCHANGED <<raw, refs>>

\* From<Id<T, Owned>> for Id<T, Shared>: ManuallyDrop, then new_nonnull.
From(h) ==
    /\ ~Draining
    /\ Live(h) /\ handles[h].own = "Owned"
    /\ LET p == handles[h].ptr
           n == new(ManuallyDrop(handles, h), p, "Shared")
       IN  /\ handles' = n.hs
           /\ rt' = Begin
           /\ last' = Record("from", h, p, n.res, None, Begin)
    /\ UNCHANGED <<raw, refs>>

\* A from_shared without ManuallyDrop: the Shared handle's destructor runs.
from_shared_drops_source(h) ==
    /\ ~Draining
    /\ Live(h) /\ handles[h].own = "Shared"
    /\ LET p == handles[h].ptr IN
        /\ LiveOn(p) = {h} /\ raw[p] = 0
        /\ PoolRefs(p, "Owned") = {} /\ PoolRefs(p, "Shared") = {}
        /\ WeakOn(p) = {}
        /\ LET n  == new(ManuallyDrop(handles, h), p, "Owned")
               r1 == objc_release(Begin, p)
           IN  /\ handles' = n.hs
               /\ rt' = r1
               /\ last' = Record("from_shared", h, p, n.res, None, r1)
    /\ UNCHANGED <<raw, refs>>

\* Id::from_shared (unsafe): the caller guarantees there is no other pointer.
from_shared(h) ==
    /\ ~Draining
    /\ Live(h) /\ handles[h].own = "Shared"
    /\ LET p == handles[h].ptr IN
        /\ LiveOn(p) = {h} /\ raw[p] = 0
        /\ PoolRefs(p, "Owned") = {} /\ PoolRefs(p, "Shared") = {}
        /\ WeakOn(p) = {}
        /\ LET n == new(ManuallyDrop(handles, h), p, "Owned") IN
            /\ handles' = n.hs
            /\ rt' = Begin
            /\ last' = Record("from_shared", h, p, n.res, None, Begin)
    /\ UNCHANGED <<raw, refs>>

\* An autorelease without ManuallyDrop: the handle's destructor also runs.
autorelease_and_drop(h, pl) ==
    /\ ~Draining
    /\ Live(h) /\ pl \in OpenPools
    /\ LET p  == handles[h].ptr
           r1 == objc_release(objc_autorelease(Begin, p), p)
       IN  /\ handles' = ManuallyDrop(handles, h)
           /\ rt' = r1
           /\ refs' = refs \cup {[ptr |-> objc_result(p), own |-> handles[h].own,
                                  bound |-> pl, pool |-> Innermost(rt)]}
           /\ last' = Record("autorelease", h, p, None, pl, r1)
    /\ UNCHANGED raw

\* An autorelease that is also carried out while a pool is draining.
autorelease_while_draining(h, pl) ==
    /\ Live(h) /\ pl \in OpenPools
    /\ LET p  == handles[h].ptr
           r1 == objc_autorelease([rt EXCEPT !.log = IF Draining THEN @ ELSE <<>>], p)
       IN  /\ handles' = ManuallyDrop(handles, h)
           /\ rt' = r1
           /\ refs' = refs \cup {[ptr |-> objc_result(p), own |-> handles[h].own,
                                  bound |-> pl, pool |-> Innermost(rt)]}
           /\ last' = Record("autorelease", h, p, None, pl, r1)
    /\ UNCHANGED raw

\* Id::autorelease(self, pool) through autorelease_inner: the handle is
\* wrapped in ManuallyDrop (no release), objc_autorelease is called and the
\* reference returned is bound to the pool given as the parameter.
autorelease(h, pl) ==
    /\ ~Draining
    /\ Live(h) /\ pl \in OpenPools
    /\ LET p  == handles[h].ptr
           r1 == objc_autorelease(Begin, p)
       IN  /\ handles' = ManuallyDrop(handles, h)
           /\ rt' = r1
           /\ refs' = refs \cup {[ptr |-> objc_result(p), own |-> handles[h].own,
                                  bound |-> pl, pool |-> Innermost(rt)]}
           /\ last' = Record("autorelease", h, p, None, pl, r1)
    /\ UNCHANGED raw

\* A destructor that releases the object twice when other handles remain.
drop_twice(h) ==
    /\ ~Draining
    /\ Live(h)
    /\ LET p  == handles[h].ptr
           r1 == objc_release(Begin, p)
           r2 == IF r1.rc[p] > 0 THEN objc_release(r1, p) ELSE r1
       IN  /\ handles' = [handles EXCEPT ![h] = NoHandle]
           /\ rt' = r2
           /\ last' = Record("drop", h, p, None, None, r2)
    /\ UNCHANGED <<raw, refs>>

\* A destructor that lets the handle go without releasing the object.
drop_forgets(h) ==
    /\ ~Draining
    /\ Live(h)
    /\ handles' = [handles EXCEPT ![h] = NoHandle]
    /\ rt' = Begin
    /\ last' = Record("drop", h, handles[h].ptr, None, None, Begin)
    /\ UNCHANGED <<raw, refs>>

\* A destructor that releases the object and leaves the handle in place.
drop_keeps_handle(h) ==
    /\ ~Draining
    /\ Live(h)
    /\ LET p  == handles[h].ptr
           r1 == objc_release(Begin, p)
       IN  /\ handles' = handles
           /\ rt' = r1
           /\ last' = Record("drop", h, p, None, None, r1)
    /\ UNCHANGED <<raw, refs>>

\* <Id as Drop>::drop: one objc_release on the pointer.
drop(h) ==
    /\ ~Draining
    /\ Live(h)
    /\ LET p  == handles[h].ptr
           r1 == objc_release(Begin, p)
       IN  /\ handles' = [handles EXCEPT ![h] = NoHandle]
           /\ rt' = r1
           /\ last' = Record("drop", h, p, None, None, r1)
    /\ UNCHANGED <<raw, refs>>

\* An as_ptr that retains the object it returns the pointer of.
as_ptr_retains(h) ==
    /\ ~Draining
    /\ Live(h) /\ CanRetain(handles[h].ptr)
    /\ LET r1 == objc_retain(Begin, handles[h].ptr) IN
        /\ rt' = r1
        /\ last' = Record("as_ptr", h, handles[h].ptr, None, None, r1)
    /\ UNCHANGED <<raw, handles, refs>>

\* Id::as_ptr: the pointer field, without touching the object.
as_ptr(h) ==
    /\ ~Draining
    /\ Live(h)
    /\ rt' = Begin
    /\ last' = Record("as_ptr", h, handles[h].ptr, None, None, Begin)
    /\ UNCHANGED <<raw, handles, refs>>

\* <Id as Deref>::deref: a shared reference to the object.
Deref(h) ==
    /\ ~Draining
    /\ Live(h)
    /\ LET r1 == as_ref(Begin, handles[h].ptr) IN
        /\ rt' = r1
        /\ last' = Record("deref", h, handles[h].ptr, None, None, r1)
    /\ UNCHANGED <<raw, handles, refs>>

\* <Id<T, Owned> as DerefMut>::deref_mut: a mutable reference to the object.
DerefMut(h) ==
    /\ ~Draining
    /\ Live(h) /\ handles[h].own = "Owned"
    /\ LET r1 == as_ref(Begin, handles[h].ptr) IN
        /\ rt' = r1
        /\ last' = Record("deref_mut", h, handles[h].ptr, None, None, r1)
    /\ UNCHANGED <<raw, handles, refs>>

\* ------------------------------------------------------------ weak references
\* A WeakId made from a handle that also takes a retain count.
WeakNew_retains(w, h) ==
    /\ ~Draining
    /\ weak[w] = Null /\ \A v \in WeakIds : v < w => weak[v] # Null
    /\ Live(h) /\ handles[h].own = "Shared" /\ CanRetain(handles[h].ptr)
    /\ LET r1 == objc_retain(Begin, handles[h].ptr) IN
        /\ weak' = [weak EXCEPT ![w] = handles[h].ptr]
        /\ rt' = r1
        /\ last' = Record("weak_new", h, handles[h].ptr, None, None, r1)
    /\ UNCHANGED <<raw, handles, refs>>

\* WeakId::new(&obj) on a Shared handle: records the object, no retain.
WeakNew(w, h) ==
    /\ ~Draining
    /\ weak[w] = Null /\ \A v \in WeakIds : v < w => weak[v] # Null
    /\ Live(h) /\ handles[h].own = "Shared"
    /\ weak' = [weak EXCEPT ![w] = handles[h].ptr]
    /\ rt' = Begin
    /\ last' = Record("weak_new", h, handles[h].ptr, None, None, Begin)
    /\ UNCHANGED <<raw, handles, refs>>

\* A load that wraps the pointer it finds without the weak-load primitive.
WeakLoad_no_retain(w) ==
    /\ weak[w] # Null
    /\ rt.st[weak[w]] = "live" => Room
    /\ LET p == IF rt.st[weak[w]] = "live" THEN weak[w] ELSE Null
           n == new(handles, p, "Shared")
       IN  /\ handles' = n.hs
           /\ rt' = Begin
           /\ last' = Record("weak_load", None, weak[w], n.res, None, Begin)
    /\ UNCHANGED <<raw, refs, weak>>

\* A load that uses the WeakId up.
WeakLoad_consumes(w) ==
    /\ weak[w] # Null
    /\ rt.st[weak[w]] = "live" => (Room /\ CanRetain(weak[w]))
    /\ LET r1 == objc_loadWeakRetained(Begin, weak[w])
           n  == new(handles, r1.res, "Shared")
       IN  /\ handles' = n.hs
           /\ rt' = r1.rt
           /\ last' = Record("weak_load", None, weak[w], n.res, None, r1.rt)
    /\ weak' = [weak EXCEPT ![w] = Null]
    /\ UNCHANGED <<raw, refs>>

\* WeakId::load: the weak-load primitive, then Id::new on what it returned.
\* The thread that loads need not be the one whose pool is draining, so a
\* load can come between two releases of a drain.
WeakLoad(w) ==
    /\ weak[w] # Null
    /\ rt.st[weak[w]] = "live" => (Room /\ CanRetain(weak[w]))
    /\ LET r1 == objc_loadWeakRetained(Begin, weak[w])
           n  == new(handles, r1.res, "Shared")
       IN  /\ handles' = n.hs
           /\ rt' = r1.rt
           /\ last' = Record("weak_load", None, weak[w], n.res, None, r1.rt)
    /\ UNCHANGED <<raw, refs, weak>>

\* The WeakId goes out of scope: no retain count is involved.
WeakDrop(w) ==
    /\ ~Draining
    /\ weak[w] # Null
    /\ weak' = [weak EXCEPT ![w] = Null]
    /\ rt' = Begin
    /\ last' = Record("weak_drop", None, weak[w], None, None, Begin)
    /\ UNCHANGED <<raw, handles, refs>>

\* --------------------------------------------------------- autorelease pools
\* A push that puts the new pool under the pools that are already open.
PoolPush_below ==
    /\ ~Draining
    /\ \E p \in PoolIds :
        /\ rt.pst[p] = "unopened"
        /\ \A q \in PoolIds : q < p => rt.pst[q] # "unopened"
        /\ rt' = [Begin EXCEPT !.stack = <<p>> \o @, !.pst[p] = "open",
                               !.parent[p] = Innermost(rt)]
        /\ last' = Record("push", None, Null, None, p, Begin)
    /\ UNCHANGED <<raw, handles, refs>>

\* autoreleasepool(|pool| ...) entered: a new pool on top of the stack.
PoolPush ==
    /\ ~Draining
    /\ \E p \in PoolIds :
        /\ rt.pst[p] = "unopened"
        /\ \A q \in PoolIds : q < p => rt.pst[q] # "unopened"
        /\ rt' = [Begin EXCEPT !.stack = Append(@, p), !.pst[p] = "open",
                               !.parent[p] = Innermost(rt)]
        /\ last' = Record("push", None, Null, None, p, Begin)
    /\ UNCHANGED <<raw, handles, refs>>

\* A pop that drains an open pool wherever it is on the stack.
PoolPopBegin_any ==
    /\ ~Draining
    /\ \E p \in OpenPools :
        /\ rt' = [Begin EXCEPT !.pst[p] = "draining"]
        /\ last' = Record("pop_begin", None, Null, None, p, Begin)
    /\ UNCHANGED <<raw, handles, refs>>

\* The closure returns: the pool on top of the stack starts to drain.
PoolPopBegin ==
    /\ ~Draining
    /\ rt.stack # <<>>
    /\ LET p == Innermost(rt) IN
        /\ rt' = [Begin EXCEPT !.pst[p] = "draining"]
        /\ last' = Record("pop_begin", None, Null, None, p, Begin)
    /\ UNCHANGED <<raw, handles, refs>>

\* A drain step that takes a deposit off the pool without releasing it.
PoolDrainStep_skips(o) ==
    /\ rt.stack # <<>>
    /\ LET p == Innermost(rt) IN
        /\ rt.pst[p] = "draining"
        /\ rt.deps[p][o] > 0
        /\ rt' = [rt EXCEPT !.deps[p][o] = @ - 1]
        /\ last' = [last EXCEPT !.op = "draining"]
    /\ UNCHANGED <<raw, handles, refs>>

\* One deferred release of the draining pool, in any order.
PoolDrainStep(o) ==
    /\ rt.stack # <<>>
    /\ LET p == Innermost(rt) IN
        /\ rt.pst[p] = "draining"
        /\ rt.deps[p][o] > 0
        /\ LET r1 == objc_release([rt EXCEPT !.deps[p][o] = @ - 1], o) IN
            /\ rt' = r1
            /\ last' = [last EXCEPT !.op = "draining", !.log = r1.log]
    /\ UNCHANGED <<raw, handles, refs>>

\* Every deposit released: the pool is closed and leaves the stack; the
\* references bound to it end with its scope.
PoolPopEnd ==
    /\ rt.stack # <<>>
    /\ LET p == Innermost(rt) IN
        /\ rt.pst[p] = "draining"
        /\ \A o \in Objs : rt.deps[p][o] = 0
        /\ rt' = [rt EXCEPT !.pst[p] = "closed",
                            !.stack = SubSeq(@, 1, Len(@) - 1)]
        /\ refs' = {x \in refs : x.bound # p}
        /\ last' = [last EXCEPT !.op = "pop"]
    /\ UNCHANGED <<raw, handles>>

\* An abnormal exit that takes the pool off the stack without draining it.
PoolUnwind_leaks ==
    /\ ~Draining
    /\ rt.stack # <<>>
    /\ LET p == Innermost(rt) IN
        /\ rt' = [Begin EXCEPT !.stack = SubSeq(@, 1, Len(@) - 1)]
        /\ last' = Record("unwind", None, Null, None, p, Begin)
    /\ UNCHANGED <<raw, handles, refs>>

\* The closure panics: the pool on top of the stack is left by unwinding
\* and starts to drain, as on a normal return.
PoolUnwind ==
    /\ ~Draining
    /\ rt.stack # <<>>
    /\ LET p == Innermost(rt) IN
        /\ rt' = [Begin EXCEPT !.pst[p] = "draining"]
        /\ last' = Record("unwind", None, Null, None, p, Begin)
    /\ UNCHANGED <<raw, handles, refs>>

\* ---------------------------------------------------------- specification
Step ==
    \/ Alloc
    \/ \E o \in Objs : ForeignRelease(o)
    \/ \E p \in Ptrs, own \in Ownerships : IdNew(p, own)
    \/ \E p \in Ptrs, own \in Ownerships : IdRetain(p, own)
    \/ \E p \in Ptrs, own \in Ownerships : IdRetainAutoreleased(p, own)
    \/ \E h \in HandleIds : Clone(h)
    \/ \E h \in HandleIds : From(h)
    \/ \E h \in HandleIds : from_shared(h)
    \/ \E h \in HandleIds, pl \in PoolIds : autorelease(h, pl)
    \/ \E h \in HandleIds : drop(h)
    \/ \E h \in HandleIds : as_ptr(h)
    \/ \E h \in HandleIds : Deref(h)
    \/ \E h \in HandleIds : DerefMut(h)
    \/ PoolPush
    \/ PoolPopBegin
    \/ \E o \in Objs : PoolDrainStep(o)
    \/ PoolPopEnd

Next == Step /\ tc' = test_clone(tc, last', handles') /\ UNCHANGED <<weak, enc, mt, file>>

Spec == Init /\ [][Next]_vars

\* The same operations together with those of WeakId.
WeakStep ==
    \/ \E w \in WeakIds, h \in HandleIds : WeakNew(w, h)
    \/ \E w \in WeakIds : WeakLoad(w)
    \/ \E w \in WeakIds : WeakDrop(w)

NextWeak == ((Step /\ UNCHANGED weak) \/ WeakStep) /\ UNCHANGED <<tc, enc, mt, file>>

SpecWeak == Init /\ [][NextWeak]_vars

\* The scopes of `run`: for each operation a pool is entered, the body
\* creates, retains, autoreleases and drops objects (pools may nest), and
\* the scope is left by return or by panic. A closure body is finite and the
\* drain is a loop over the deposits, so scope exit, each drain step and the
\* closing of the pool are weakly fair.
ScopeStep ==
    \/ Alloc
    \/ \E p \in Ptrs, own \in Ownerships : IdNew(p, own)
    \/ \E p \in Ptrs, own \in Ownerships : IdRetain(p, own)
    \/ \E h \in HandleIds, pl \in PoolIds : autorelease(h, pl)
    \/ \E h \in HandleIds : drop(h)
    \/ PoolPush
    \/ PoolPopBegin
    \/ PoolUnwind
    \/ \E o \in Objs : PoolDrainStep(o)
    \/ PoolPopEnd

NextLive == ScopeStep /\ UNCHANGED <<tc, weak, enc, mt, file>>

SpecLive ==
    /\ Init /\ [][NextLive]_vars
    /\ WF_vars((PoolPopBegin \/ PoolUnwind) /\ UNCHANGED <<tc, weak, enc, mt, file>>)
    /\ WF_vars((\E o \in Objs : PoolDrainStep(o)) /\ UNCHANGED <<tc, weak, enc, mt, file>>)
    /\ WF_vars(PoolPopEnd /\ UNCHANGED <<tc, weak, enc, mt, file>>)

\* The encodings of the types built from the base types, and of the
\* argument tuples.
InitEnc ==
    /\ HostInit /\ mt = MtInit(FALSE, FALSE) /\ file = FileInit(NoLibraries)
    /\ \E b \in BaseTypes : enc = EncOf(<<b>>)

EncStep ==
    \/ \E k \in PointerKinds : EncPointer(k)
    \/ \E w \in Transparent : EncTransparent(w)
    \/ \E t \in ArgTypes : EncArgument(t)

NextEnc == EncStep /\ UNCHANGED <<host, mt, file>>

SpecEnc == InitEnc /\ [][NextEnc]_vars

\* Threads that create, clone, move, lend, autorelease and drop the handles
\* of one object, for each choice of the pointee's Send and Sync.
InitMT ==
    /\ HostInit /\ enc = EncOf(<<"unit">>) /\ file = FileInit(NoLibraries)
    /\ \E send \in BOOLEAN, sync \in BOOLEAN : mt = MtInit(send, sync)

MtStep ==
    \/ \E t \in Threads, own \in Ownerships : MtNew(t, own)
    \/ \E t \in Threads, h \in HandleIds : MtClone(t, h)
    \/ \E h \in HandleIds : MtFrom(h)
    \/ \E h \in HandleIds, t \in Threads : MtSend(h, t)
    \/ \E h \in HandleIds, t \in Threads : MtShare(h, t)
    \/ \E h \in HandleIds, t \in Threads : MtUnshare(h, t)
    \/ \E h \in HandleIds : MtDrop(h)
    \/ \E t \in Threads : MtPoolPush(t)
    \/ \E h \in HandleIds : MtAutorelease(h)
    \/ \E x \in mt.refs, t \in Threads : MtRefSend(x, t)
    \/ \E t \in Threads : MtPoolPop(t)

NextMT == MtStep /\ UNCHANGED <<host, enc, file>>

SpecMT == InitMT /\ [][NextMT]_vars

\* Files made for the libraries of a configuration, filled and rendered.
InitFile ==
    /\ HostInit /\ enc = EncOf(<<"unit">>) /\ mt = MtInit(FALSE, FALSE)
    /\ \E ls \in SUBSET LibraryNames : \E libraries \in [ls -> ImportLists] :
          file = FileInit(libraries)

FileStep ==
    \/ \E l \in LibraryNames : FileNew(l)
    \/ \E st \in StmtIds : add_stmt(st)
    \/ FileDisplay

NextFile == FileStep /\ UNCHANGED <<host, enc, mt>>

SpecFile == InitFile /\ [][NextFile]_vars

TypeOk ==
    /\ rt.rc \in [Objs -> 0..MaxRc]
    /\ raw \in [Objs -> 0..1]
    /\ ~rt.ub

\* ------------------------------------------------------------------ claims
LiveCountsSame == \A o \in Objs : Cardinality(LiveOn(o)) = last.live0[o]
Releases(log)  == {i \in 1..Len(log) : log[i][1] = "release"}

\* C1: a handle that goes out of scope issues exactly one objc_release, on
\* its own object, and is gone afterwards (so it cannot release again); a
\* handle consumed by the downgrade, by from_shared or by autorelease issues
\* no release at that point; and no other handle operation releases.
C1_DropReleasesExactlyOnce ==
    /\ last.op = "drop" =>
          /\ last.log = << <<"release", last.arg>> >>
          /\ rt.rc[last.arg] = last.rc0[last.arg] - 1
          /\ handles[last.h] = NoHandle
    /\ last.op \in {"from", "from_shared", "autorelease"} =>
          /\ Releases(last.log) = {}
          /\ rt.rc = last.rc0
    /\ last.op \in {"new", "retain", "retain_autoreleased", "clone"} =>
          Releases(last.log) = {}

\* A handle obtained by a downgrade has just been dropped.
C1_Witness ==
    /\ last.op = "drop" /\ last.pre.op = "from"
    /\ rt.st[last.arg] = "dead"

\* C2: Id::new(p) for a non-null p followed at once by the drop of the result
\* performs, in all, one release call and no retain call.
C2_AdoptThenDrop ==
    (last.op = "drop" /\ last.pre.op = "new") =>
        /\ last.pre.arg # Null /\ last.pre.res = last.h
        /\ last.pre.log \o last.log = << <<"release", last.pre.arg>> >>
        /\ rt.rc[last.arg] = last.pre.rc0[last.arg] - 1

C2_Witness == last.op = "drop" /\ last.pre.op = "new" /\ last.pre.arg \in Objs

\* C3: Id::new(null) returns None, issues no foreign call, and leaves every
\* count, every pool and the set of live handles as they were.
C3_AdoptNull ==
    (last.op = "new" /\ last.arg = Null) =>
        /\ last.res = None
        /\ last.log = <<>>
        /\ rt.rc = last.rc0 /\ rt.deps = last.deps0
        /\ LiveCountsSame

\* Id::new(null) was called while an object and a live handle exist.
C3_Witness ==
    /\ last.op = "new" /\ last.arg = Null
    /\ \E h \in HandleIds : Live(h)

\* C4 as stated: Id::retain(null) returns None and issues no foreign call.
C4_RetainNullNoCall ==
    (last.op = "retain" /\ last.arg = Null) =>
        /\ last.res = None
        /\ last.log = <<>>

\* C4 as amended: Id::retain(null) returns None, creates no handle and
\* changes no retain count and no pool; the one foreign call it issues is
\* objc_retain on the null pointer.
C4_RetainNull ==
    (last.op = "retain" /\ last.arg = Null) =>
        /\ last.res = None
        /\ last.log = << <<"retain", Null>> >>
        /\ rt.rc = last.rc0 /\ rt.deps = last.deps0
        /\ LiveCountsSame

\* Id::retain(null) was called while an object and a live handle exist.
C4_Witness ==
    /\ last.op = "retain" /\ last.arg = Null
    /\ \E h \in HandleIds : Live(h)

\* C5: Id::retain(p) for a non-null p issues exactly one retain call, the
\* count of p goes up by exactly 1 and the result is a live handle to p;
\* dropping that handle at once issues one release and puts the count back.
C5_RetainThenDrop ==
    /\ (last.op = "retain" /\ last.arg # Null) =>
          /\ last.log = << <<"retain", last.arg>> >>
          /\ rt.rc = [last.rc0 EXCEPT ![last.arg] = @ + 1]
          /\ last.res # None
          /\ Live(last.res) /\ handles[last.res].ptr = last.arg
          /\ Cardinality(LiveOn(last.arg)) = last.live0[last.arg] + 1
    /\ (last.op = "drop" /\ last.pre.op = "retain") =>
          /\ last.log = << <<"release", last.pre.arg>> >>
          /\ rt.rc = last.pre.rc0

C5_Witness ==
    /\ last.op = "drop" /\ last.pre.op = "retain"
    /\ rt.rc[last.arg] = 1

\* C6: clone of a live Shared handle issues exactly one retain call and the
\* count goes up by exactly 1; the clone is a second live Shared handle to
\* the same object.  Dropping the clone or the original right after takes
\* the count down by exactly 1 and leaves the other handle live, on the same
\* object, which is not deallocated.
C6_CloneThenDrop ==
    /\ last.op = "clone" =>
          /\ last.log = << <<"retain", last.arg>> >>
          /\ rt.rc = [last.rc0 EXCEPT ![last.arg] = @ + 1]
          /\ last.res \notin {None, last.h}
          /\ \A h \in {last.h, last.res} :
                handles[h] = [st |-> "live", ptr |-> last.arg, own |-> "Shared"]
    /\ (last.op = "drop" /\ last.pre.op = "clone") =>
          /\ last.h \in {last.pre.h, last.pre.res}
          /\ rt.rc = [last.rc0 EXCEPT ![last.arg] = @ - 1]
          /\ rt.rc = last.pre.rc0
          /\ \A h \in {last.pre.h, last.pre.res} \ {last.h} :
                handles[h] = [st |-> "live", ptr |-> last.arg, own |-> "Shared"]
          /\ rt.st[last.arg] = "live"

\* The original was dropped right after the clone, which stays valid.
C6_Witness ==
    /\ last.op = "drop" /\ last.pre.op = "clone" /\ last.h = last.pre.h
    /\ rt.rc[last.arg] = 1

\* C7: the downgrade issues no foreign call, changes no retain count, and
\* yields a live Shared handle to the same address in place of the Owned
\* one (the object has as many live handles as before); it can be applied
\* to every live Owned handle.
C7_DowngradeKeepsCount ==
    /\ last.op = "from" =>
          /\ last.log = <<>>
          /\ rt.rc = last.rc0 /\ rt.deps = last.deps0
          /\ last.res # None
          /\ handles[last.res] = [st |-> "live", ptr |-> last.arg, own |-> "Shared"]
          /\ LiveCountsSame
    /\ \A h \in HandleIds :
          (Live(h) /\ handles[h].own = "Owned" /\ ~Draining) => ENABLED From(h)

C7_Witness ==
    /\ last.op = "from"
    /\ rt.rc[last.arg] = 1 /\ last.rc0[last.arg] = 1

\* C8: in the scenario of test_clone (create O, adopt as Owned, downgrade,
\* clone, drop the first Shared handle, drop the second) the count of O is
\* 1 after the creation, the adoption and the downgrade, 2 after the clone,
\* 1 after the first drop and 0 after the second, when O is deallocated; by
\* then the calls on O were exactly 1 retain and 2 releases.
C8_TestCloneCounts ==
    /\ tc.pc \in {1, 2, 3} => (rt.rc[tc.obj] = 1 /\ tc.nret = 0 /\ tc.nrel = 0)
    /\ tc.pc = 4 => (rt.rc[tc.obj] = 2 /\ tc.nret = 1 /\ tc.nrel = 0)
    /\ tc.pc = 5 => (rt.rc[tc.obj] = 1 /\ tc.nret = 1 /\ tc.nrel = 1
                     /\ rt.st[tc.obj] = "live")
    /\ tc.pc = 6 => (rt.rc[tc.obj] = 0 /\ tc.nret = 1 /\ tc.nrel = 2
                     /\ rt.st[tc.obj] = "dead")
    /\ tc.pc \in 1..5 => rt.st[tc.obj] = "live"

\* The scenario has run to its end.
C8_Witness == tc.pc = 6 /\ last.op = "drop" /\ last.arg = tc.obj

\* C9: autorelease consumes the handle and issues one objc_autorelease and
\* no release: no count changes and the innermost pool holds exactly one
\* more deposit of the object.  A deposit stays pending, and with it its
\* credit on the object, for as long as its pool is open; when the pool has
\* drained, the count of each object is down by exactly the number of its
\* deposits in that pool.
C9_DepositState ==
    /\ last.op = "autorelease" =>
          /\ handles[last.h] = NoHandle
          /\ last.log = << <<"autorelease", last.arg>> >>
          /\ rt.rc = last.rc0
          /\ rt.deps = [last.deps0 EXCEPT ![Innermost(rt)][last.arg] = @ + 1]
          /\ Cardinality(LiveOn(last.arg)) = last.live0[last.arg] - 1
    /\ \A o \in Objs :
          rt.st[o] = "live" =>
              rt.rc[o] = raw[o] + Cardinality(LiveOn(o)) + Pending(rt, o)
    /\ last.op = "pop" =>
          /\ \A o \in Objs :
                /\ rt.rc[o] = last.rc0[o] - last.deps0[last.pool][o]
                /\ rt.deps[last.pool][o] = 0
          /\ \A o \in Objs :
                Calls(last.log, "release", o) = last.deps0[last.pool][o]
          /\ Releases(last.log) = 1..Len(last.log)

C9_DepositStep ==
    \A p \in PoolIds, o \in Objs :
        (rt.pst[p] = "open" /\ rt'.pst[p] = "open") => rt'.deps[p][o] >= rt.deps[p][o]

C10_NestedPools ==
    /\ \A q \in PoolIds :
          (rt.parent[q] # None /\ rt.pst[q] \in {"open", "draining"}) =>
              rt.pst[rt.parent[q]] = "open"
    /\ \A x \in refs :
          rt.pst[x.pool] = "open" => rt.deps[x.pool][x.ptr] >= 1
    /\ last.op \in {"draining", "pop"} =>
          /\ \A p \in PoolIds \ {last.pool} : rt.deps[p] = last.deps0[p]
          /\ \A o \in Objs :
                rt.rc[o] = last.rc0[o] - (last.deps0[last.pool][o] - rt.deps[last.pool][o])
    /\ \A p \in PoolIds :
          rt.pst[p] \in {"closed", "unopened"} => rt.deps[p] = [o \in Objs |-> 0]

\* The inner pool has drained its deposit; the outer pool is still open and
\* still holds its own.
C10_Witness ==
    /\ last.op = "pop" /\ rt.parent[last.pool] # None
    /\ rt.pst[rt.parent[last.pool]] = "open"
    /\ \E o \in Objs : last.deps0[last.pool][o] > 0
    /\ \E o \in Objs : rt.deps[rt.parent[last.pool]][o] > 0

\* C11: pools drain in LIFO order.  The stack holds exactly the pools that
\* are open or draining, in the order they were opened, and only its top can
\* be draining; when a pool drains, every pool opened after it is closed;
\* every pool opened inside a closed pool is closed; and the only pool that
\* ever goes from open to draining is the one on top of the stack.
OpenedAfter(p) == {q \in PoolIds : q > p /\ rt.pst[q] # "unopened"}

C11_LifoState ==
    /\ \A p \in PoolIds :
          rt.pst[p] \in {"open", "draining"} <=>
              \E i \in 1..Len(rt.stack) : rt.stack[i] = p
    /\ \A i, j \in 1..Len(rt.stack) : i < j => rt.stack[i] < rt.stack[j]
    /\ \A i \in 1..Len(rt.stack) :
          rt.pst[rt.stack[i]] = "draining" => i = Len(rt.stack)
    /\ \A p \in PoolIds :
          rt.pst[p] = "draining" => \A q \in OpenedAfter(p) : rt.pst[q] = "closed"
    /\ \A p, q \in PoolIds :
          (rt.pst[p] = "closed" /\ rt.parent[q] = p) => rt.pst[q] = "closed"

C11_DrainStep ==
    \A p \in PoolIds :
        (rt.pst[p] = "open" /\ rt'.pst[p] = "draining") =>
            /\ p = Innermost(rt)
            /\ \A q \in OpenedAfter(p) : rt.pst[q] = "closed"

C11_LifoDrain == []C11_LifoState /\ [][C11_DrainStep]_vars

\* The outer pool drains after the pool opened inside it was closed.
C11_Witness ==
    \E p, q \in PoolIds :
        rt.parent[q] = p /\ rt.pst[p] = "draining" /\ rt.pst[q] = "closed"

\* C12: a drain step takes exactly one deposit off the draining pool and
\* issues exactly one release, on the object of that deposit; a pool is
\* closed only when none of its deposits is left, and by then it has issued
\* as many releases as it held deposits; a pool starts to drain only from
\* the open state and never leaves the closed state, so it drains once.
TotalDeps(d) ==
    LET RECURSIVE Sum(_)
        Sum(T) == IF T = {} THEN 0
                  ELSE LET o == CHOOSE q \in T : TRUE IN d[o] + Sum(T \ {o})
    IN Sum(Objs)

C12_DrainedState ==
    last.op = "pop" =>
        /\ Len(last.log) = TotalDeps(last.deps0[last.pool])
        /\ TotalDeps(rt.deps[last.pool]) = 0
        /\ rt.pst[last.pool] = "closed"

C12_DrainStep ==
    /\ \A p \in PoolIds, o \in Objs :
          rt'.deps[p][o] < rt.deps[p][o] =>
              /\ rt.pst[p] = "draining" /\ rt'.pst[p] = "draining"
              /\ rt'.deps = [rt.deps EXCEPT ![p][o] = @ - 1]
              /\ rt'.log = Append(rt.log, <<"release", o>>)
              /\ rt'.rc = [rt.rc EXCEPT ![o] = @ - 1]
    /\ \A p \in PoolIds :
          (rt.pst[p] = "draining" /\ rt'.pst[p] # "draining") =>
              /\ rt'.pst[p] = "closed"
              /\ TotalDeps(rt.deps[p]) = 0
    /\ \A p \in PoolIds :
          (rt.pst[p] # "draining" /\ rt'.pst[p] = "draining") => rt.pst[p] = "open"
    /\ \A p \in PoolIds : rt.pst[p] = "closed" => rt'.pst[p] = "closed"

C12_DrainReleasesEachOnce == []C12_DrainedState /\ [][C12_DrainStep]_vars

\* A pool that held two deposits has drained.
C12_Witness ==
    /\ last.op = "pop"
    /\ TotalDeps(last.deps0[last.pool]) = 2 /\ Len(last.log) = 2

\* C13: a pool only moves from open to draining and from draining to
\* closed (after it was opened); the deposits of a pool grow only while it
\* is open and stays open; a closed pool stays closed and empty.
PoolMoves == {<<"unopened", "open">>, <<"open", "draining">>, <<"draining", "closed">>}

C13_PoolStep ==
    \A p \in PoolIds :
        /\ rt'.pst[p] # rt.pst[p] => <<rt.pst[p], rt'.pst[p]>> \in PoolMoves
        /\ \A o \in Objs :
              rt'.deps[p][o] > rt.deps[p][o] =>
                  rt.pst[p] = "open" /\ rt'.pst[p] = "open"
        /\ rt.pst[p] = "closed" =>
              rt'.pst[p] = "closed" /\ rt'.deps[p] = [o \in Objs |-> 0]

C13_PoolStateMachine == [][C13_PoolStep]_vars

\* A deposit has gone into a pool opened after another pool was closed.
C13_Witness ==
    /\ last.op = "autorelease"
    /\ \E p \in PoolIds : rt.pst[p] = "closed"
    /\ rt.pst[Innermost(rt)] = "open" /\ rt.deps[Innermost(rt)][last.arg] > 0

\* C14 as stated: a reference returned by autorelease(pool) refers to an
\* object that is not deallocated for as long as that pool is open, and no
\* reference is left once the pool has drained.
C14_ReferenceValid ==
    /\ \A x \in refs : rt.pst[x.bound] = "open" => rt.st[x.ptr] = "live"
    /\ \A x \in refs : rt.pst[x.bound] # "closed"

\* C15: making a WeakId from a handle and dropping a WeakId issue no retain
\* and no release call and change no count, no pool and no handle; and
\* while WeakIds are held no count depends on them: the count of a live
\* object is the number of credits of raw pointers, handles and pools.
C15_WeakHoldsNoCredit ==
    /\ last.op \in {"weak_new", "weak_drop"} =>
          /\ \A i \in 1..Len(last.log) : last.log[i][1] \notin {"retain", "release"}
          /\ rt.rc = last.rc0 /\ rt.deps = last.deps0
          /\ LiveCountsSame
    /\ \A o \in Objs :
          rt.st[o] = "live" =>
              rt.rc[o] = raw[o] + Cardinality(LiveOn(o)) + Pending(rt, o)

\* A WeakId to an object with count 1 was made, held and dropped; the
\* count is still 1.
C15_Witness ==
    /\ last.op = "weak_drop"
    /\ rt.st[last.arg] = "live" /\ rt.rc[last.arg] = 1

\* C16 as stated: a load while a handle to the target is live returns a
\* handle to it and raises the count by exactly 1; a load when no handle to
\* the target is live and no autorelease of it is pending returns None.
C16_LoadByHandles ==
    last.op = "weak_load" =>
        /\ last.live0[last.arg] >= 1 =>
              /\ last.res # None
              /\ handles[last.res] = [st |-> "live", ptr |-> last.arg, own |-> "Shared"]
              /\ rt.rc = [last.rc0 EXCEPT ![last.arg] = @ + 1]
        /\ (last.live0[last.arg] = 0 /\ Pending([deps |-> last.deps0], last.arg) = 0) =>
              last.res = None

\* C16 as amended: a load while a handle to the target is live, or while
\* its count is at least 1 for any other reason, returns a handle to it and
\* raises the count by exactly 1; a load when the count has gone to zero
\* returns None, which is the case when no handle to the target is live, no
\* autorelease of it is pending and no retain count is held outside the
\* handles.
C16_LoadByCount ==
    last.op = "weak_load" =>
        /\ last.live0[last.arg] >= 1 => last.rc0[last.arg] >= 1
        /\ last.rc0[last.arg] >= 1 =>
              /\ last.res # None
              /\ handles[last.res] = [st |-> "live", ptr |-> last.arg, own |-> "Shared"]
              /\ rt.rc = [last.rc0 EXCEPT ![last.arg] = @ + 1]
        /\ (/\ last.live0[last.arg] = 0
            /\ Pending([deps |-> last.deps0], last.arg) = 0
            /\ raw[last.arg] = 0) => last.rc0[last.arg] = 0
        /\ last.rc0[last.arg] = 0 => (last.res = None /\ rt.rc = last.rc0)

\* A load after the last handle was dropped returned None, while another
\* handle exists.
C16_Witness ==
    /\ last.op = "weak_load" /\ last.res = None
    /\ rt.st[last.arg] = "dead"
    /\ \E h \in HandleIds : Live(h)

\* C17: a load, wherever it falls among the releases of the target issued
\* elsewhere (the drops of its handles, the releases of a draining pool),
\* either returns a handle to the target, which is then live with one more
\* count than before the load, or returns None, and then the target is
\* deallocated and the load changed no count and made no handle.
C17_LoadIsAtomic ==
    last.op = "weak_load" =>
        \/ /\ last.res # None
           /\ Live(last.res) /\ handles[last.res].ptr = last.arg
           /\ rt.st[last.arg] = "live"
           /\ last.rc0[last.arg] >= 1
           /\ rt.rc[last.arg] = last.rc0[last.arg] + 1
        \/ /\ last.res = None
           /\ rt.st[last.arg] = "dead"
           /\ rt.rc = last.rc0
           /\ LiveCountsSame

\* The only count of the target was a deposit in a pool that is draining:
\* the load came before the release of that deposit and returned a handle.
C17_Witness ==
    /\ last.op = "weak_load" /\ Draining
    /\ last.res # None /\ last.rc0[last.arg] = 1

HostCredits(o) == Cardinality(LiveOn(o)) + Pending(rt, o)

C19_CreditState ==
    /\ ~rt.ub
    /\ \A o \in Objs :
          /\ rt.st[o] # "live" => HostCredits(o) = 0
          /\ rt.st[o] = "live" => rt.rc[o] >= HostCredits(o)
          /\ rt.rc[o] >= 0
    /\ last.op \notin {"draining", "pop"} =>
          \A i \in Releases(last.log) :
              last.log[i][2] # Null /\ last.rc0[last.log[i][2]] >= 1

C19_ReleaseStep ==
    \A o \in Objs :
        rt'.rc[o] < rt.rc[o] =>
            /\ rt.st[o] = "live" /\ rt.rc[o] >= 1
            /\ rt'.rc[o] = rt.rc[o] - 1
            /\ HostCredits(o)' + raw'[o] = HostCredits(o) + raw[o] - 1

C19_NoUnmatchedRelease == []C19_CreditState /\ [][C19_ReleaseStep]_vars

\* A deferred release, issued by a draining pool, has deallocated an object.
C19_Witness ==
    /\ last.op = "draining" /\ Draining
    /\ \E o \in Objs :
          /\ rt.st[o] = "dead"
          /\ Len(rt.log) > 0 /\ rt.log[Len(rt.log)] = <<"release", o>>

\* C20: the object of every live Id is not deallocated and has a count of
\* at least 1; as_ptr, deref, deref_mut and clone were applied to a live
\* object and none of them took an undefined path; as_ptr and deref can be
\* applied to every live handle and clone to every live Shared handle while
\* its count is within the range explored.
C20_LiveHandleLiveObject ==
    /\ \A h \in HandleIds :
          Live(h) =>
              /\ handles[h].ptr # Null
              /\ rt.st[handles[h].ptr] = "live"
              /\ rt.rc[handles[h].ptr] >= 1
    /\ last.op \in {"as_ptr", "deref", "deref_mut", "clone"} =>
          /\ rt.st[last.arg] = "live" /\ last.rc0[last.arg] >= 1
          /\ ~rt.ub
    /\ \A h \in HandleIds :
          (Live(h) /\ ~Draining) =>
              /\ ENABLED as_ptr(h) /\ ENABLED Deref(h)
              /\ (handles[h].own = "Shared" /\ Room /\ CanRetain(handles[h].ptr))
                     => ENABLED Clone(h)

\* A dereference of the only handle of an object that a WeakId observes.
C20_Witness ==
    /\ last.op = "deref"
    /\ \E w \in WeakIds : weak[w] = last.arg
    /\ rt.rc[last.arg] = 1 /\ raw[last.arg] = 0

\* C24: retain_autoreleased accepts the inputs that retain accepts, and
\* each step of it, for a null or a non-null pointer, ends in the state that
\* retain ends in from the same state: the same counts, pools and handles
\* and the same Option result; and the other way round.
RetainLike == {"retain", "retain_autoreleased"}

C24_SameInputs ==
    \A p \in Ptrs, own \in Ownerships :
        ENABLED IdRetain(p, own) <=> ENABLED IdRetainAutoreleased(p, own)

C24_SameStep ==
    last'.op \in RetainLike =>
        LET p  == last'.arg
            r1 == objc_retain(Begin, p)
            r2 == objc_retainAutoreleasedReturnValue(Begin, p)
        IN  /\ \A r \in {r1, r2} :
                  /\ rt'.rc = r.rc /\ rt'.st = r.st /\ rt'.ub = r.ub
                  /\ rt'.deps = r.deps /\ rt'.stack = r.stack /\ rt'.pst = r.pst
            /\ \E own \in Ownerships :
                  LET n == new(handles, objc_result(p), own) IN
                      handles' = n.hs /\ last'.res = n.res
            /\ raw' = raw /\ refs' = refs

C24_RetainAutoreleasedIsRetain == []C24_SameInputs /\ [][C24_SameStep]_vars

\* retain_autoreleased on an object with a deposit pending in an open pool.
C24_Witness ==
    /\ last.op = "retain_autoreleased" /\ last.arg # Null
    /\ last.res # None /\ rt.rc[last.arg] = last.rc0[last.arg] + 1
    /\ Pending(rt, last.arg) > 0

\* C25: every live Id holds a non-null pointer; new, retain and
\* retain_autoreleased return None exactly for the null pointer and
\* otherwise a handle to the pointer given; clone, the downgrade and
\* from_shared always return a handle, to the object of their source.
Constructors == {"new", "retain", "retain_autoreleased", "clone", "from", "from_shared"}

C25_NoNullHandle ==
    /\ \A h \in HandleIds : Live(h) => handles[h].ptr \in Objs
    /\ last.op \in Constructors =>
          /\ last.res = None <=> last.arg = Null
          /\ last.res # None =>
                /\ Live(last.res)
                /\ handles[last.res].ptr = last.arg
                /\ handles[last.res].ptr # Null
          /\ last.op \in {"clone", "from", "from_shared"} => last.res # None

\* retain_autoreleased was given the null pointer while a handle exists.
C25_Witness ==
    /\ last.op = "retain_autoreleased" /\ last.arg = Null /\ last.res = None
    /\ \E h \in HandleIds : Live(h)

\* C27: an Id operation calls the runtime only as stated for it, and only
\* on the object of its own handle: the counts of the other objects, their
\* deposits in every pool and the handles to them are as before; as_ptr,
\* deref and deref_mut make no call and change nothing.
Reads == {"as_ptr", "deref", "deref_mut"}

StatedCalls(op) ==
    CASE op \in {"new", "from", "from_shared"} \cup Reads -> {}
      [] op \in {"retain", "clone"} -> {"retain"}
      [] op = "retain_autoreleased" -> {"retainAutoreleasedReturnValue"}
      [] op = "autorelease" -> {"autorelease"}
      [] op = "drop" -> {"release"}

C27_OnlyOwnObject ==
    /\ last.op \in IdOps \cup Reads =>
          /\ \A i \in 1..Len(last.log) :
                /\ last.log[i][1] \in StatedCalls(last.op)
                /\ last.log[i][2] = last.arg
          /\ Len(last.log) = Cardinality(StatedCalls(last.op))
          /\ \A o \in Objs \ {last.arg} :
                /\ rt.rc[o] = last.rc0[o]
                /\ \A p \in PoolIds : rt.deps[p][o] = last.deps0[p][o]
                /\ Cardinality(LiveOn(o)) = last.live0[o]
    /\ last.op \in Reads =>
          /\ last.log = <<>>
          /\ rt.rc = last.rc0 /\ rt.deps = last.deps0
          /\ LiveCountsSame

\* A drop that deallocates its object while another object has a handle
\* and a pending deposit.
C27_Witness ==
    /\ last.op = "drop" /\ last.arg # Null /\ rt.st[last.arg] = "dead"
    /\ \E o \in Objs \ {last.arg} :
          /\ LiveOn(o) # {} /\ Pending(rt, o) > 0 /\ rt.rc[o] >= 2

\* C26: every pool that is opened is eventually closed, whether its scope
\* is left by return or by panic, and every deposit pending in a pool is
\* eventually released, the pool ending closed and empty.
C26_EveryPoolDrained ==
    /\ \A p \in PoolIds : (rt.pst[p] = "open") ~> (rt.pst[p] = "closed")
    /\ \A p \in PoolIds, o \in Objs :
          (rt.deps[p][o] > 0) ~> (rt.pst[p] = "closed" /\ rt.deps[p][o] = 0)

\* A panic leaves the inner of two pools while both hold deposits.
C26_Witness ==
    /\ last.op = "unwind" /\ Len(rt.stack) = 2
    /\ rt.pst[last.pool] = "draining"
    /\ \A p \in PoolIds : \E o \in Objs : rt.deps[p][o] > 0

\* C28: where T has a reference encoding, every pointer-like type to T
\* encodes as T's reference encoding and its own reference encoding wraps
\* that in one Pointer; a pointer to a pointer encodes as Pointer of the
\* inner pointer's encoding, so the Pointer wrappers count the indirections
\* (one less over i8 and u8, whose pointers are String); *const c_void and
\* *mut c_void encode as Pointer(Void).
Count(seq, S) == Cardinality({i \in 1..Len(seq) : seq[i] \in S})
Base(t)       == t[Len(t)]

C28_PointerEncodings ==
    LET t == enc.ty IN
    (Len(t) > 1 /\ Head(t) \in PointerKinds) =>
        LET T == Tail(t) IN
        /\ ENCODING_REF(T) # NoImpl =>
              /\ enc.ENCODING = ENCODING_REF(T)
              /\ enc.ENCODING_REF = <<"Pointer">> \o ENCODING_REF(T)
              /\ \A k \in PointerKinds : ENCODING(<<k>> \o T) = enc.ENCODING
        /\ (Head(T) \in PointerKinds /\ ENCODING(T) # NoImpl) =>
              enc.ENCODING = <<"Pointer">> \o ENCODING(T)
        /\ enc.ENCODING # NoImpl =>
              Count(enc.ENCODING, {"Pointer"}) =
                  Count(t, PointerKinds) - (IF Base(t) \in {"i8", "u8"} THEN 1 ELSE 0)
        /\ T \in {<<"i8">>, <<"u8">>} =>
              enc.ENCODING = <<"String">> /\ enc.ENCODING_REF = <<"Pointer", "String">>
        /\ (T = <<"c_void">> /\ Head(t) \in {"const_ptr", "mut_ptr"}) =>
              enc.ENCODING = <<"Pointer", "Void">>
        /\ t = <<"ref", "const_ptr", "c_void">> =>
              enc.ENCODING = <<"Pointer", "Pointer", "Void">>

\* Option<NonNull<&u8>>: a pointer to a C string.
C28_Witness ==
    /\ enc.ty = <<"Option_NonNull", "ref", "u8">>
    /\ enc.ENCODING = <<"Pointer", "String">>
    /\ enc.ENCODING_REF = <<"Pointer", "Pointer", "String">>

\* C29: ManuallyDrop<T>, MaybeUninit<T> and Wrapping<T> have the ENCODING
\* and the ENCODING_REF of T, each exactly where T has it, whatever T is; so
\* a type that has an encoding encodes as the type with its transparent
\* wrappers taken away.
Strip(t) == SelectSeq(t, LAMBDA c : c \notin Transparent)

C29_TransparentEncodings ==
    LET t == enc.ty IN
    /\ (Len(t) > 1 /\ Head(t) \in Transparent) =>
          /\ enc.ENCODING = ENCODING(Tail(t))
          /\ enc.ENCODING_REF = ENCODING_REF(Tail(t))
    /\ enc.ENCODING # NoImpl => enc.ENCODING = ENCODING(Strip(t))
    /\ enc.ENCODING_REF # NoImpl => enc.ENCODING_REF = ENCODING_REF(Strip(t))

\* test_transparent: &ManuallyDrop<Option<&u8>> encodes as &&u8.
C29_Witness ==
    /\ enc.ty = <<"ref", "ManuallyDrop", "Option_ref", "u8">>
    /\ enc.ENCODING = ENCODING(<<"ref", "ref", "u8">>)
    /\ enc.ENCODING = <<"Pointer", "String">>

\* C30: the ENCODINGS of a tuple of 0 to 12 argument types has the length
\* of the tuple and holds at each position the ENCODING of the argument at
\* that position; it is empty for the unit tuple.
C30_ArgumentEncodings ==
    /\ Len(enc.args) \in 0..MaxArgs
    /\ Len(enc.ENCODINGS) = Len(enc.args)
    /\ \A i \in 1..Len(enc.args) : enc.ENCODINGS[i] = ENCODING(enc.args[i])
    /\ enc.args = <<>> => enc.ENCODINGS = <<>>
    /\ (Len(enc.ty) = 1 /\ Len(enc.args) < MaxArgs) =>
          \A t \in ArgTypes : ENABLED EncArgument(t)

\* Twelve arguments, the first an i8 and the last a u32.
C30_Witness ==
    /\ Len(enc.args) = MaxArgs
    /\ enc.args[1] = <<"i8">> /\ enc.args[MaxArgs] = <<"u32">>
    /\ enc.ENCODINGS[1] = <<"Char">> /\ enc.ENCODINGS[MaxArgs] = <<"UInt">>

\* C21: Id<T, Shared> is Send exactly when T is Send and Sync, and Sync
\* exactly when T is Send and Sync; a Shared handle that is on another
\* thread than the one it was made on, or lent to another thread, has such
\* a pointee, and without both capabilities it can be neither moved nor lent.
C21_SharedNeedsSendAndSync ==
    /\ IdSend("Shared", mt.T) <=> (mt.T.send /\ mt.T.sync)
    /\ IdSync("Shared", mt.T) <=> (mt.T.send /\ mt.T.sync)
    /\ \A h \in HandleIds : (MtLive(h) /\ mt.hs[h].own = "Shared") =>
          /\ (mt.hs[h].th # mt.hs[h].origin \/ mt.hs[h].lent # {}) =>
                (mt.T.send /\ mt.T.sync)
          /\ ~(mt.T.send /\ mt.T.sync) =>
                \A t \in Threads : ~ENABLED MtSend(h, t) /\ ~ENABLED MtShare(h, t)

\* One Shared handle was moved to another thread while a second one is lent.
C21_Witness ==
    \E h, g \in HandleIds :
        /\ h # g /\ MtLive(h) /\ MtLive(g)
        /\ mt.hs[h].own = "Shared" /\ mt.hs[g].own = "Shared"
        /\ mt.hs[h].th # mt.hs[h].origin /\ mt.hs[g].lent # {}

\* C22: Id<T, Owned> is Send exactly when T is Send and Sync exactly when T
\* is Sync: an Owned handle can be moved to every other thread when T is
\* Send, whether or not T is Sync, and lent to every other thread when T is
\* Sync; one that was moved has a Send pointee, one that is lent a Sync one.
C22_OwnedSendSync ==
    /\ IdSend("Owned", mt.T) <=> mt.T.send
    /\ IdSync("Owned", mt.T) <=> mt.T.sync
    /\ \A h \in HandleIds : (MtLive(h) /\ mt.hs[h].own = "Owned") =>
          /\ (mt.T.send /\ mt.hs[h].lent = {}) =>
                \A t \in Threads \ {mt.hs[h].th} : ENABLED MtSend(h, t)
          /\ mt.T.sync =>
                \A t \in Threads \ MtUsers(h) : ENABLED MtShare(h, t)
          /\ mt.hs[h].th # mt.hs[h].origin => mt.T.send
          /\ mt.hs[h].lent # {} => mt.T.sync

\* An Owned handle of a pointee that is Send but not Sync, on another thread.
C22_Witness ==
    /\ mt.T.send /\ ~mt.T.sync
    /\ \E h \in HandleIds :
          /\ MtLive(h) /\ mt.hs[h].own = "Owned"
          /\ mt.hs[h].th # mt.hs[h].origin

\* C23: a pool is drained by the thread that opened it, its deposits were
\* made by that thread, and every reference bound to a pool is held by the
\* thread of the pool.
PoolsDrainLocal ==
    \A p \in PoolIds : mt.pools[p].drainedBy \in {NoThread, mt.pools[p].th}

DepositsLocal ==
    \A p \in PoolIds : mt.pools[p].depBy \subseteq {mt.pools[p].th}

C23_PoolsThreadLocal ==
    /\ PoolsDrainLocal
    /\ DepositsLocal
    /\ \A x \in mt.refs : x.th = mt.pools[x.pool].th

\* C31 as stated: autorelease(pool), in either ownership mode, releases
\* nothing during the call and leaves its one deferred release with the
\* pool given as the parameter, so that the release is performed when that
\* pool drains.
C31_ReleasedByParameterPool ==
    last.op = "autorelease" =>
        /\ Releases(last.log) = {}
        /\ rt.rc = last.rc0
        /\ rt.deps[last.pool][last.arg] = last.deps0[last.pool][last.arg] + 1
        /\ \A p \in PoolIds \ {last.pool} : rt.deps[p] = last.deps0[p]

C32_OpenIsOnStack ==
    \A p \in OpenPools :
        /\ \E i \in 1..Len(rt.stack) :
              /\ rt.stack[i] = p
              /\ {rt.stack[j] : j \in (i + 1)..Len(rt.stack)} =
                     {q \in OpenedAfter(p) : rt.pst[q] # "closed"}
        /\ p = Innermost(rt) <=> \A q \in OpenedAfter(p) : rt.pst[q] = "closed"

C32_TopDrains ==
    \A p \in OpenPools : p # Innermost(rt) => rt'.pst[p] # "draining"

MtHandles  == {h \in HandleIds : MtLive(h)}
MtDeposits == {p \in PoolIds : mt.pools[p].deps > 0}

C33_State ==
    /\ mt.deallocs <= 1
    /\ mt.deallocs = 1 <=> mt.st = "dead"
    /\ mt.st = "dead" => (MtHandles = {} /\ mt.rc = 0)
    /\ MtHandles # {} => (mt.st = "live" /\ mt.rc >= Cardinality(MtHandles))
    /\ (mt.st # "free" /\ MtHandles = {} /\ MtDeposits = {}) =>
          (mt.st = "dead" /\ mt.deallocs = 1)

C33_Step ==
    (mt.st = "live" /\ mt'.st = "dead" /\ MtDeposits = {}) =>
        \E h \in HandleIds :
            /\ MtHandles = {h}
            /\ mt'.hs[h] = MtNoHandle
            /\ mt.rc = 1 /\ mt'.rc = 0

C33_DeallocatedOnce == []C33_State /\ [][C33_Step]_vars

\* Two Shared handles to the object are live on two different threads.
C33_Witness ==
    \E h, g \in HandleIds :
        /\ MtLive(h) /\ MtLive(g) /\ mt.hs[h].th # mt.hs[g].th
        /\ mt.hs[h].own = "Shared" /\ mt.hs[g].own = "Shared"
        /\ mt.rc = 2 /\ MtDeposits = {}

\* C34: the step that drops a handle and deallocates the object runs the
\* deallocation on the thread that holds that handle at the time, whichever
\* thread made the object or the handle.
C34_Step ==
    \A h \in HandleIds :
        (MtLive(h) /\ mt'.hs[h] = MtNoHandle /\ mt.st = "live" /\ mt'.st = "dead") =>
            /\ mt'.deallocOn = mt.hs[h].th
            /\ mt'.deallocs = mt.deallocs + 1

C34_DeallocOnLastDropper == [][C34_Step]_vars

\* The object was deallocated by a drop on another thread than the one that
\* made it, no pool having been used.
C34_Witness ==
    /\ mt.st = "dead" /\ mt.deallocOn # mt.madeOn
    /\ \A p \in PoolIds : mt.pools[p].pst = "unopened"

\* C35 as stated: a load made when no handle to the target is live but a
\* deposit of it is pending returns a handle; a load made after a pool has
\* drained, when no handle is live and no deposit is pending, returns None.
C35_LoadAroundDrain ==
    (last.op = "weak_load" /\ last.live0[last.arg] = 0) =>
        IF Pending([deps |-> last.deps0], last.arg) >= 1
        THEN last.res # None
        ELSE (\E p \in PoolIds : rt.pst[p] = "closed") => last.res = None

\* C35, amended: with no handle live, a load made while a deposit of the
\* target is pending returns a Shared handle to it and raises the count by 1,
\* the deposit staying pending; a load made when no deposit is pending and
\* no count is held outside the handles returns None and changes nothing.
C35_LoadAroundDrainByCount ==
    (last.op = "weak_load" /\ last.live0[last.arg] = 0) =>
        /\ Pending([deps |-> last.deps0], last.arg) >= 1 =>
              /\ last.res # None
              /\ handles[last.res] = [st |-> "live", ptr |-> last.arg, own |-> "Shared"]
              /\ rt.rc = [last.rc0 EXCEPT ![last.arg] = @ + 1]
              /\ rt.deps = last.deps0
        /\ (Pending([deps |-> last.deps0], last.arg) = 0 /\ raw[last.arg] = 0) =>
              /\ last.res = None
              /\ rt.rc = last.rc0 /\ rt.st[last.arg] = "dead"
              /\ LiveCountsSame

\* A load found the object kept alive by a pending deposit alone.
C35_Witness ==
    /\ last.op = "weak_load" /\ last.res # None
    /\ last.live0[last.arg] = 0 /\ raw[last.arg] = 0
    /\ last.rc0[last.arg] = 1
    /\ Pending([deps |-> last.deps0], last.arg) = 1

\* C36: from_shared issues no foreign call and changes no count and no
\* pool; the Shared handle is consumed without a release and an Owned handle
\* to the same address stands in its place; when that Owned handle is
\* dropped it issues exactly one release, on that object.
C36_UpgradeKeepsCount ==
    /\ last.op = "from_shared" =>
          /\ last.log = <<>>
          /\ rt.rc = last.rc0 /\ rt.deps = last.deps0
          /\ last.res # None
          /\ handles[last.res] = [st |-> "live", ptr |-> last.arg, own |-> "Owned"]
          /\ LiveOn(last.arg) = {last.res}
          /\ LiveCountsSame
    /\ (last.op = "drop" /\ last.pre.op = "from_shared") =>
          /\ last.h = last.pre.res /\ last.arg = last.pre.arg
          /\ last.log = << <<"release", last.arg>> >>
          /\ rt.rc[last.arg] = last.rc0[last.arg] - 1
          /\ handles[last.h] = NoHandle

\* The Owned handle made by from_shared was dropped and the object, which
\* had count 1 throughout, was deallocated.
C36_Witness ==
    /\ last.op = "drop" /\ last.pre.op = "from_shared"
    /\ last.rc0[last.arg] = 1 /\ rt.st[last.arg] = "dead"

\* C37: the count of every object is the number of live handles to it
\* plus its deposits pending in pools plus the credits held outside the
\* host; so an object without a live handle and without a pending deposit
\* has exactly the count held outside the host, and no operation was applied
\* to a deallocated object.
C37_Accounting ==
    /\ ~rt.ub
    /\ \A o \in Objs :
          /\ rt.rc[o] = Cardinality(LiveOn(o)) + Pending(rt, o) + raw[o]
          /\ (LiveOn(o) = {} /\ Pending(rt, o) = 0) => rt.rc[o] = raw[o]
          /\ rt.st[o] # "live" => rt.rc[o] = 0

\* A pool has drained and no handle and no deposit is left: one object was
\* deallocated by it and the other is held by a raw pointer only.
C37_Witness ==
    /\ last.op = "pop"
    /\ \A o \in Objs : LiveOn(o) = {} /\ Pending(rt, o) = 0
    /\ \E o \in Objs : rt.st[o] = "dead"
    /\ \E o \in Objs : rt.st[o] = "live" /\ raw[o] = 1 /\ rt.rc[o] = 1

C39_State ==
    /\ ~rt.ub
    /\ \A w \in WeakIds :
          (/\ weak[w] # Null
           /\ rt.st[weak[w]] = "live" => (Room /\ CanRetain(weak[w]))) =>
              ENABLED WeakLoad(w)
    /\ last.op = "weak_load" =>
          /\ last.res = None <=> rt.st[last.arg] = "dead"
          /\ last.res # None => Live(last.res) /\ handles[last.res].ptr = last.arg

C39_Step ==
    /\ last'.op = "weak_load" => weak' = weak
    /\ \A o \in Objs : rt.st[o] = "dead" =>
          /\ rt'.st[o] = "dead"
          /\ (last'.op = "weak_load" /\ last'.arg = o) =>
                (last'.res = None /\ rt'.rc = rt.rc /\ handles' = handles)

C39_LoadRepeatable == []C39_State /\ [][C39_Step]_vars

\* A load returned None, no handle is left, and the WeakId can be loaded
\* again.
C39_Witness ==
    /\ last.op = "weak_load" /\ last.res = None
    /\ \A h \in HandleIds : ~Live(h)
    /\ \E w \in WeakIds : weak[w] = last.arg /\ ENABLED WeakLoad(w)

\* C40: a new File has the configured imports of its library and no
\* statement; each add_stmt appends exactly its statement at the end of the
\* statements and changes neither the earlier statements nor the imports;
\* the rendering is the prelude, the common import, one line per import in
\* the configured order, an empty line, and then one line per statement in
\* the order the statements were added.
C40_State ==
    LET ni == Len(file.f.imports)
        ns == Len(file.f.stmts)
    IN  /\ file.op = "new" =>
            /\ file.f.stmts = <<>>
            /\ file.f.imports = file.libraries[file.arg]
        /\ file.op = "fmt" =>
            /\ Len(file.out) = 3 + ni + ns
            /\ file.out[1] = FILE_PRELUDE
            /\ file.out[2] = <<"use", "common">>
            /\ \A i \in 1..ni : file.out[2 + i] = <<"use", file.f.imports[i]>>
            /\ file.out[3 + ni] = <<"blank">>
            /\ \A j \in 1..ns : file.out[3 + ni + j] = <<"stmt", file.f.stmts[j]>>

C40_Step ==
    /\ file'.op = "add_stmt" =>
            /\ Len(file'.f.stmts) = Len(file.f.stmts) + 1
            /\ file'.f.stmts[Len(file'.f.stmts)] = file'.arg
            /\ \A j \in 1..Len(file.f.stmts) : file'.f.stmts[j] = file.f.stmts[j]
            /\ file'.f.imports = file.f.imports
            /\ file'.libraries = file.libraries
    /\ file'.op = "fmt" => file'.f = file.f /\ file'.libraries = file.libraries

C40_RendersInOrderAdded == []C40_State /\ [][C40_Step]_vars

C40_Witness ==
    /\ file.op = "fmt"
    /\ Len(file.f.imports) = 2
    /\ Len(file.f.stmts) = 3
    /\ file.f.stmts[1] # file.f.stmts[2]
    /\ file.out[6] # file.out[7]

====
